---- MODULE Spec2Model ----
(***************************************************************************)
(* Order lifecycle and regeneration engine of grid_trader:                 *)
(*   engine/order_manager.py  (OrderManager, Order)                        *)
(*   engine/grid_manager.py   (GridManager, ActiveGrid)                    *)
(*   broker/mt5_connector.py  (connection flag, trade requests)            *)
(*                                                                         *)
(* Prices are integers counted in points of the symbol; round(x, decimals) *)
(* is rounding to a multiple of unit points, unit = 1 when decimals is the *)
(* symbol's own precision.  Lot sizes are counted in lot steps,            *)
(* times are whole seconds of time.time().  Order ids (uuid4 strings) are  *)
(* the positive integers in order of registration; slot tags that a        *)
(* strategy attaches to a specification are integers above SlotTagBase, so *)
(* that a tag never equals an order id.  The time stamps of an Order       *)
(* (creation_time, fill_time, close_time, last_regeneration_time) and pnl  *)
(* are written and never read by the engine; they are left out.            *)
(***************************************************************************)
EXTENDS Integers, Sequences, FiniteSets, TLC

(* ------------------------------ bounds --------------------------------- *)
\* orders the order table may hold under Spec
MaxOrders == 2
\* highest value a caller of place_new_order drives a slot's counter to
MaxCount == 3
\* orders the order table may hold under LiveSpec
MaxLiveOrders == 3
\* orders the order table may hold under GridSpec
MaxGridOrders == 5
\* grids created under GridSpec
MaxGrids == 1
\* orders the order table may hold under KindSpec
MaxKindOrders == 2
\* seconds of wall clock the model lets pass, in bars
MaxElapsedBars == 15
\* time.time() at construction
StartTime == 1000
\* points in one step of a rounding with too few decimals
CoarseUnit == 10
\* first slot tag handed out by a strategy
SlotTagBase == 100
\* first ticket handed out by the broker
TicketBase == 500

(* ------------------------- program constants --------------------------- *)
DEFAULT_MAX_REGENERATION_ATTEMPTS == 3
DEFAULT_COOLDOWN_PERIOD_BARS == 5
BAR_DURATION_SECONDS == 60
\* DEFAULT_SL_TP_WIDENING_FACTOR = 1.2 as a fraction
WIDEN_NUM == 6
WIDEN_DEN == 5

(* None for an id, a ticket, a price, a grid id *)
NoneId == 0
NoPrice == 0 - 1
NoGrid == <<>>

(* ------------------------- Python containers --------------------------- *)
\* dict[k] = v
Put(d, k, v) == [x \in (DOMAIN d) \cup {k} |-> IF x = k THEN v ELSE d[x]]
\* dict.get(k, default)
Get(d, k, default) == IF k \in DOMAIN d THEN d[k] ELSE default
\* del dict[k]
Del(d, k) == [x \in (DOMAIN d) \ {k} |-> d[x]]
\* x in list
Contains(s, x) == \E i \in 1..Len(s) : s[i] = x
\* list.remove(x): the first occurrence goes
ListRemove(s, x) ==
    IF ~Contains(s, x) THEN s
    ELSE LET i == CHOOSE j \in 1..Len(s) : s[j] = x /\ \A k \in 1..(j - 1) : s[k] # x
         IN  SubSeq(s, 1, i - 1) \o SubSeq(s, i + 1, Len(s))
Max(a, b) == IF a >= b THEN a ELSE b
Min(a, b) == IF a <= b THEN a ELSE b
Abs(a) == IF a >= 0 THEN a ELSE 0 - a

(* ----------------------------- enums ----------------------------------- *)
OrderStatus == {"PENDING", "ACTIVE", "CANCELLED", "FILLED", "STOPPED_OUT", "TP_HIT", "CLOSED"}
OrderType == {"MARKET_BUY", "MARKET_SELL", "BUY_LIMIT", "SELL_LIMIT", "BUY_STOP", "SELL_STOP"}
\* str.upper() on the order type strings the callers pass
Upper(s) ==
    CASE s = "buy_limit" -> "BUY_LIMIT"
      [] s = "sell_stop" -> "SELL_STOP"
      [] OTHER -> s

(* ------------------------------ Order ---------------------------------- *)
Order(order_id, symbol, order_type, entry_price, sl_price, tp_price, lot_size, grid_id, original_order_id) ==
    [ order_id |-> order_id, symbol |-> symbol, order_type |-> order_type,
      entry_price |-> entry_price, sl_price |-> sl_price, tp_price |-> tp_price,
      lot_size |-> lot_size, status |-> "PENDING", grid_id |-> grid_id,
      original_order_id |-> IF original_order_id # NoneId THEN original_order_id ELSE order_id,
      fill_price |-> NoPrice, close_price |-> NoPrice,
      regeneration_attempts |-> 0,
      initial_sl_price |-> sl_price, initial_tp_price |-> tp_price,
      broker_order_id |-> NoneId,
      status_log |-> <<"PENDING">> ]

\* order.status = s; status_log keeps every value the status has had, in order
SetStatus(order, s) ==
    [order EXCEPT !.status = s,
                  !.status_log = IF s = order.status THEN @ ELSE Append(@, s)]

VARIABLES
    orders,                 \* OrderManager.orders: order id -> Order
    pending_orders,         \* OrderManager.pending_orders: list of ids
    active_positions,       \* OrderManager.active_positions: list of ids
    regeneration_counts,    \* OrderManager.regeneration_counts: slot id -> attempts
    slot_cooldown_tracker,  \* GridManager.slot_cooldown_tracker: slot id -> time
    active_grids,           \* GridManager.active_grids: grid id -> ActiveGrid
    mt5_initialized,        \* mt5_connector._mt5_initialized
    now,                    \* time.time()
    last,                   \* the call that led to this state and what it returned
    regen_attempt_time      \* stopped order id -> time of its regeneration attempt

vars == <<orders, pending_orders, active_positions, regeneration_counts,
          slot_cooldown_tracker, active_grids, mt5_initialized, now, last,
          regen_attempt_time>>

\* the OrderManager's collections as one value, threaded through its methods
OM == [ orders |-> orders, pending_orders |-> pending_orders,
        active_positions |-> active_positions,
        regeneration_counts |-> regeneration_counts ]

(* ------------------- OrderManager collections -------------------------- *)
_add_order_to_collections(om, order) ==
    LET id == order.order_id
        o1 == [om EXCEPT !.orders = Put(om.orders, id, order)]
    IN  IF order.status = "PENDING"
        THEN [o1 EXCEPT !.pending_orders =
                 IF ~Contains(@, id) THEN Append(@, id) ELSE @]
        ELSE IF order.status \in {"ACTIVE", "FILLED"}
        THEN [o1 EXCEPT !.active_positions =
                 IF ~Contains(@, id) THEN Append(@, id) ELSE @,
                        !.pending_orders =
                 IF Contains(@, id) THEN ListRemove(@, id) ELSE @]
        ELSE o1

\* a removal that leaves both lists as they are
_remove_order_from_collections_skipped(om, order_id, old_status) == om

_remove_order_from_collections(om, order_id, old_status) ==
    IF old_status = "PENDING" /\ Contains(om.pending_orders, order_id)
    THEN [om EXCEPT !.pending_orders = ListRemove(@, order_id)]
    ELSE IF old_status \in {"ACTIVE", "FILLED"} /\ Contains(om.active_positions, order_id)
    THEN [om EXCEPT !.active_positions = ListRemove(@, order_id)]
    ELSE om

(* ------------------------- place_new_order ----------------------------- *)
\* uuid4(): an id no order has
NewOrderId(om) == Cardinality(DOMAIN om.orders) + 1

\* the validation without its two tests of the take-profit
PlaceRejected_tp_unchecked(a) ==
    LET t == Upper(a.order_type_str)
    IN  \/ t \notin OrderType
        \/ a.lot_size <= 0
        \/ t \in {"BUY_LIMIT", "BUY_STOP"} /\ a.entry_price <= a.sl_price
        \/ t \in {"SELL_LIMIT", "SELL_STOP"} /\ a.entry_price >= a.sl_price

\* the validation of place_new_order: TRUE when the request is rejected
PlaceRejected(a) ==
    LET t == Upper(a.order_type_str)
    IN  \/ t \notin OrderType
        \/ a.lot_size <= 0
        \/ /\ t \in {"BUY_LIMIT", "BUY_STOP"}
           /\ \/ a.entry_price <= a.sl_price
              \/ a.tp_price # 0 /\ a.entry_price >= a.tp_price
        \/ /\ t \in {"SELL_LIMIT", "SELL_STOP"}
           /\ \/ a.entry_price >= a.sl_price
              \/ a.tp_price # 0 /\ a.entry_price <= a.tp_price

\* trade_result.order: the ticket the broker gives the request of order id
Ticket(id) == TicketBase + id

\* place_new_order(**a) with the connection flag and the broker's answer tr
\* (retcode "DONE", "PLACED" or "FAIL"; price).  Returns the manager's
\* collections and the id of the order returned (NoneId for None).
place_new_order(om, a, connected, tr) ==
    IF PlaceRejected(a) THEN [om |-> om, order_id |-> NoneId]
    ELSE
    LET id == NewOrderId(om)
        o0 == Order(id, a.symbol, Upper(a.order_type_str), a.entry_price, a.sl_price,
                    a.tp_price, a.lot_size, a.grid_id, a.original_order_id_for_regen)
        slot == a.original_order_id_for_regen
        counted == a.is_regeneration /\ slot # NoneId
        om1 == IF counted
               THEN [om EXCEPT !.regeneration_counts = Put(@, slot, Get(@, slot, 0) + 1)]
               ELSE om
        o1 == IF counted
              THEN [o0 EXCEPT !.regeneration_attempts = om1.regeneration_counts[slot]]
              ELSE o0
    IN  IF connected
        THEN IF tr.retcode \in {"DONE", "PLACED"}
             THEN LET o2 == [SetStatus(o1, IF tr.retcode = "DONE" THEN "FILLED" ELSE "PENDING")
                                EXCEPT !.broker_order_id = Ticket(id),
                                       !.fill_price = IF tr.retcode = "DONE" THEN tr.price ELSE @]
                  IN  [om |-> _add_order_to_collections(om1, o2), order_id |-> id]
             ELSE [om |-> om1, order_id |-> NoneId]
        ELSE [om |-> _add_order_to_collections(om1, o1), order_id |-> id]

(* --------------------------- cancel_order ------------------------------ *)
\* cancel_order without its test of the status: it cancels a filled or closed order
cancel_order_any_status(om, order_id, connected, removed) ==
    IF order_id \notin DOMAIN om.orders THEN [om |-> om, ok |-> FALSE]
    ELSE
    LET order == om.orders[order_id]
    IN  IF connected /\ order.broker_order_id # NoneId /\ ~removed
        THEN [om |-> om, ok |-> FALSE]
        ELSE LET om1 == [om EXCEPT !.orders[order_id] = SetStatus(@, "CANCELLED")]
             IN  [om |-> _remove_order_from_collections(om1, order_id, order.status),
                  ok |-> TRUE]

\* cancel_order that reports success for an order it does not cancel
cancel_order_always_true(om, order_id, connected, removed) ==
    IF order_id \notin DOMAIN om.orders THEN [om |-> om, ok |-> FALSE]
    ELSE
    LET order == om.orders[order_id]
    IN  IF order.status # "PENDING" THEN [om |-> om, ok |-> TRUE]
        ELSE IF connected /\ order.broker_order_id # NoneId /\ ~removed
        THEN [om |-> om, ok |-> FALSE]
        ELSE LET om1 == [om EXCEPT !.orders[order_id] = SetStatus(@, "CANCELLED")]
             IN  [om |-> _remove_order_from_collections(om1, order_id, order.status),
                  ok |-> TRUE]

\* cancel_order(order_id); removed is whether the broker confirms TRADE_ACTION_REMOVE
cancel_order(om, order_id, connected, removed) ==
    IF order_id \notin DOMAIN om.orders THEN [om |-> om, ok |-> FALSE]
    ELSE
    LET order == om.orders[order_id]
    IN  IF order.status # "PENDING" THEN [om |-> om, ok |-> FALSE]
        ELSE IF connected /\ order.broker_order_id # NoneId /\ ~removed
        THEN [om |-> om, ok |-> FALSE]
        ELSE LET om1 == [om EXCEPT !.orders[order_id] = SetStatus(@, "CANCELLED")]
             IN  [om |-> _remove_order_from_collections(om1, order_id, order.status),
                  ok |-> TRUE]

(* ------------------------ modify_order_sl_tp --------------------------- *)
\* modify_order_sl_tp without its test of the status
modify_order_sl_tp_any_status(om, order_id, new_sl, new_tp, connected, modified) ==
    IF order_id \notin DOMAIN om.orders THEN [om |-> om, ok |-> FALSE]
    ELSE
    LET order == om.orders[order_id]
    IN  IF connected /\ order.broker_order_id # NoneId /\ ~modified
        THEN [om |-> om, ok |-> FALSE]
        ELSE [om |-> [om EXCEPT !.orders[order_id].sl_price = IF new_sl # NoPrice THEN new_sl ELSE @,
                                !.orders[order_id].tp_price = IF new_tp # NoPrice THEN new_tp ELSE @],
              ok |-> TRUE]

\* modify_order_sl_tp(order_id, new_sl, new_tp), NoPrice for an argument left None;
\* modified is whether the broker confirms the TRADE_ACTION_SLTP / _MODIFY request
modify_order_sl_tp(om, order_id, new_sl, new_tp, connected, modified) ==
    IF order_id \notin DOMAIN om.orders THEN [om |-> om, ok |-> FALSE]
    ELSE
    LET order == om.orders[order_id]
    IN  IF order.status \notin {"PENDING", "ACTIVE", "FILLED"} THEN [om |-> om, ok |-> FALSE]
        ELSE IF connected /\ order.broker_order_id # NoneId /\ ~modified
        THEN [om |-> om, ok |-> FALSE]
        ELSE [om |-> [om EXCEPT !.orders[order_id].sl_price = IF new_sl # NoPrice THEN new_sl ELSE @,
                                !.orders[order_id].tp_price = IF new_tp # NoPrice THEN new_tp ELSE @],
              ok |-> TRUE]

(* ------------------------ check_pending_orders ------------------------- *)
\* a fill rule that treats a limit order as the stop order of its side
FillPrice_limits_as_stops(order, bar) ==
    LET e == order.entry_price
    IN  IF order.order_type \in {"BUY_STOP", "BUY_LIMIT"} /\ bar.high >= e
        THEN Max(e, IF bar.high > e THEN bar.low ELSE e)
        ELSE IF order.order_type \in {"SELL_STOP", "SELL_LIMIT"} /\ bar.low <= e
        THEN Min(e, IF bar.low < e THEN bar.high ELSE e)
        ELSE NoPrice

\* a fill rule that always fills at the entry price
FillPrice_at_entry(order, bar) ==
    LET e == order.entry_price
    IN  IF order.order_type = "BUY_STOP" /\ bar.high >= e THEN e
        ELSE IF order.order_type = "SELL_STOP" /\ bar.low <= e THEN e
        ELSE IF order.order_type = "BUY_LIMIT" /\ bar.low <= e THEN e
        ELSE IF order.order_type = "SELL_LIMIT" /\ bar.high >= e THEN e
        ELSE NoPrice

\* the fill price of a pending order against one bar, NoPrice when it does not fill
FillPrice(order, bar) ==
    LET e == order.entry_price
        market_high == bar.high
        market_low == bar.low
    IN  IF order.order_type = "BUY_STOP" /\ market_high >= e
        THEN Max(e, IF market_high > e THEN market_low ELSE e)
        ELSE IF order.order_type = "SELL_STOP" /\ market_low <= e
        THEN Min(e, IF market_low < e THEN market_high ELSE e)
        ELSE IF order.order_type = "BUY_LIMIT" /\ market_low <= e
        THEN Min(e, IF market_low < e THEN market_high ELSE e)
        ELSE IF order.order_type = "SELL_LIMIT" /\ market_high >= e
        THEN Max(e, IF market_high > e THEN market_low ELSE e)
        ELSE NoPrice

\* the loop of check_pending_orders over list(self.pending_orders)
RECURSIVE CheckPendingLoop(_, _, _, _)
CheckPendingLoop(om, ids, md, filled) ==
    IF ids = <<>> THEN [om |-> om, ids |-> filled]
    ELSE
    LET order_id == Head(ids)
    IN  IF order_id \notin DOMAIN om.orders THEN CheckPendingLoop(om, Tail(ids), md, filled)
        ELSE
        LET order == om.orders[order_id]
        IN  IF order.symbol \notin DOMAIN md THEN CheckPendingLoop(om, Tail(ids), md, filled)
            ELSE
            LET fill_price == FillPrice(order, md[order.symbol])
            IN  IF fill_price = NoPrice THEN CheckPendingLoop(om, Tail(ids), md, filled)
                ELSE
                LET o1 == [SetStatus(order, "FILLED") EXCEPT !.fill_price = fill_price]
                    om1 == [om EXCEPT !.orders[order_id] = o1]
                    om2 == _remove_order_from_collections(om1, order_id, order.status)
                    om3 == _add_order_to_collections(om2, o1)
                IN  CheckPendingLoop(om3, Tail(ids), md, Append(filled, order_id))

check_pending_orders(om, md, connected) ==
    IF connected THEN [om |-> om, ids |-> <<>>]
    ELSE CheckPendingLoop(om, om.pending_orders, md, <<>>)

(* ----------------------- check_active_positions ------------------------ *)
\* closed_by with the take-profit tested before the stop-loss
ClosedBy_tp_first(order, bar) ==
    LET market_high == bar.high
        market_low == bar.low
    IN  IF order.order_type \in {"BUY_LIMIT", "BUY_STOP", "MARKET_BUY"}
        THEN IF order.tp_price # 0 /\ market_high >= order.tp_price THEN "TP_HIT"
             ELSE IF order.sl_price # 0 /\ market_low <= order.sl_price THEN "STOPPED_OUT"
             ELSE ""
        ELSE IF order.order_type \in {"SELL_LIMIT", "SELL_STOP", "MARKET_SELL"}
        THEN IF order.tp_price # 0 /\ market_low <= order.tp_price THEN "TP_HIT"
             ELSE IF order.sl_price # 0 /\ market_high >= order.sl_price THEN "STOPPED_OUT"
             ELSE ""
        ELSE ""

\* closed_by that takes an SL or TP of 0 for a price level
ClosedBy_zero_is_level(order, bar) ==
    IF order.order_type \in {"BUY_LIMIT", "BUY_STOP", "MARKET_BUY"}
    THEN IF bar.low <= order.sl_price THEN "STOPPED_OUT"
         ELSE IF bar.high >= order.tp_price THEN "TP_HIT"
         ELSE ""
    ELSE IF bar.high >= order.sl_price THEN "STOPPED_OUT"
         ELSE IF bar.low <= order.tp_price THEN "TP_HIT"
         ELSE ""

\* closed_by of check_active_positions for one bar, "" when the position stays open
ClosedBy(order, bar) ==
    LET market_high == bar.high
        market_low == bar.low
    IN  IF order.order_type \in {"BUY_LIMIT", "BUY_STOP", "MARKET_BUY"}
        THEN IF order.sl_price # 0 /\ market_low <= order.sl_price THEN "STOPPED_OUT"
             ELSE IF order.tp_price # 0 /\ market_high >= order.tp_price THEN "TP_HIT"
             ELSE ""
        ELSE IF order.order_type \in {"SELL_LIMIT", "SELL_STOP", "MARKET_SELL"}
        THEN IF order.sl_price # 0 /\ market_high >= order.sl_price THEN "STOPPED_OUT"
             ELSE IF order.tp_price # 0 /\ market_low <= order.tp_price THEN "TP_HIT"
             ELSE ""
        ELSE ""

\* the loop of check_active_positions over list(self.active_positions)
RECURSIVE CheckActiveLoop(_, _, _, _)
CheckActiveLoop(om, ids, md, closed) ==
    IF ids = <<>> THEN [om |-> om, ids |-> closed]
    ELSE
    LET order_id == Head(ids)
    IN  IF order_id \notin DOMAIN om.orders THEN CheckActiveLoop(om, Tail(ids), md, closed)
        ELSE
        LET order == om.orders[order_id]
        IN  IF order.fill_price = NoPrice \/ order.symbol \notin DOMAIN md
            THEN CheckActiveLoop(om, Tail(ids), md, closed)
            ELSE
            LET closed_by == ClosedBy(order, md[order.symbol])
            IN  IF closed_by = "" THEN CheckActiveLoop(om, Tail(ids), md, closed)
                ELSE
                LET o1 == [SetStatus(order, closed_by) EXCEPT
                              !.close_price = IF closed_by = "STOPPED_OUT"
                                              THEN order.sl_price ELSE order.tp_price]
                    om1 == [om EXCEPT !.orders[order_id] = o1]
                    om2 == _remove_order_from_collections(om1, order_id, order.status)
                IN  CheckActiveLoop(om2, Tail(ids), md, Append(closed, order_id))

check_active_positions(om, md, connected) ==
    IF connected THEN [om |-> om, ids |-> <<>>]
    ELSE CheckActiveLoop(om, om.active_positions, md, <<>>)

(* -------------------------- regeneration ------------------------------- *)
\* needs_regeneration without the limit on the attempts of the slot
needs_regeneration_unlimited(om, order_id) ==
    order_id \in DOMAIN om.orders /\ om.orders[order_id].status = "STOPPED_OUT"

\* needs_regeneration that still answers True when the attempts equal the limit
needs_regeneration_one_more(om, order_id) ==
    /\ order_id \in DOMAIN om.orders
    /\ om.orders[order_id].status = "STOPPED_OUT"
    /\ Get(om.regeneration_counts, om.orders[order_id].original_order_id, 0)
         <= DEFAULT_MAX_REGENERATION_ATTEMPTS

needs_regeneration(om, order_id) ==
    IF order_id \notin DOMAIN om.orders THEN FALSE
    ELSE IF om.orders[order_id].status # "STOPPED_OUT" THEN FALSE
    ELSE LET original_id == om.orders[order_id].original_order_id
             attempts == Get(om.regeneration_counts, original_id, 0)
         IN  IF attempts >= DEFAULT_MAX_REGENERATION_ATTEMPTS THEN FALSE ELSE TRUE

\* round(n / d) of Python for d > 0: to the nearest whole point, ties to even
RoundDiv(n, d) ==
    LET q == n \div d
        r == n % d
    IN  IF 2 * r < d THEN q
        ELSE IF 2 * r > d THEN q + 1
        ELSE IF q % 2 = 0 THEN q ELSE q + 1

\* round(n / d, decimals): to the nearest multiple of unit
RoundTo(n, d, unit) == RoundDiv(n, d * unit) * unit

\* get_order_details_for_regeneration(stopped_order_id, widen_sltp_factor = num/den);
\* none is TRUE for a None result.  round(entry -+ dist * factor, decimals) is taken
\* on the whole expression; unit is what get_symbol_config(symbol)['decimals'] rounds to.
get_order_details_for_regeneration(om, stopped_order_id, num, den, unit) ==
    IF stopped_order_id \notin DOMAIN om.orders
       \/ om.orders[stopped_order_id].status # "STOPPED_OUT"
    THEN [none |-> TRUE]
    ELSE
    LET order == om.orders[stopped_order_id]
        widen == num > den
        sl_dist == Abs(order.entry_price - order.initial_sl_price)
        tp_dist == Abs(order.initial_tp_price - order.entry_price)
        buy == order.order_type \in {"BUY_LIMIT", "BUY_STOP"}
        new_sl == IF ~widen THEN order.initial_sl_price
                  ELSE IF buy THEN RoundTo(order.entry_price * den - sl_dist * num, den, unit)
                  ELSE RoundTo(order.entry_price * den + sl_dist * num, den, unit)
        new_tp == IF ~widen THEN order.initial_tp_price
                  ELSE IF order.initial_tp_price = 0 THEN 0
                  ELSE IF buy THEN RoundTo(order.entry_price * den + tp_dist * num, den, unit)
                  ELSE RoundTo(order.entry_price * den - tp_dist * num, den, unit)
    IN  [ none |-> FALSE,
          symbol |-> order.symbol, order_type_str |-> order.order_type,
          entry_price |-> order.entry_price, sl_price |-> new_sl, tp_price |-> new_tp,
          lot_size |-> order.lot_size, grid_id |-> order.grid_id,
          original_order_id_for_regen |-> order.original_order_id,
          is_regeneration |-> TRUE ]

(* --------------------- synchronize_orders_with_mt5 --------------------- *)
\* the status a closed position takes from its exit deal ("none": no exit deal)
DealStatus(reason) ==
    IF reason = "SL" THEN "STOPPED_OUT"
    ELSE IF reason = "TP" THEN "TP_HIT"
    ELSE "CLOSED"

\* first loop of synchronize_orders_with_mt5, over list(self.orders.keys());
\* b is what the broker reports: pending tickets, position tickets, price_open,
\* the reason and price of the exit deal
RECURSIVE SyncOrdersLoop(_, _, _)
SyncOrdersLoop(om, ids, b) ==
    IF ids = <<>> THEN om
    ELSE
    LET internal_id == Head(ids)
        order == om.orders[internal_id]
        mt5_ticket == order.broker_order_id
    IN  IF mt5_ticket = NoneId THEN SyncOrdersLoop(om, Tail(ids), b)
        ELSE IF order.status = "PENDING" /\ mt5_ticket \notin b.pending
        THEN IF mt5_ticket \in b.positions
             THEN LET o1 == [SetStatus(order, "FILLED") EXCEPT !.fill_price = b.price_open]
                      om1 == [om EXCEPT !.orders[internal_id] = o1]
                      om2 == _remove_order_from_collections(om1, internal_id, "PENDING")
                  IN  SyncOrdersLoop(_add_order_to_collections(om2, o1), Tail(ids), b)
             ELSE LET om1 == [om EXCEPT !.orders[internal_id] = SetStatus(@, "CANCELLED")]
                  IN  SyncOrdersLoop(_remove_order_from_collections(om1, internal_id, "PENDING"),
                                     Tail(ids), b)
        ELSE IF order.status \in {"ACTIVE", "FILLED"} /\ mt5_ticket \notin b.positions
        THEN LET o1 == [SetStatus(order, DealStatus(b.reason)) EXCEPT
                           !.close_price = IF b.reason = "none" THEN @ ELSE b.deal_price]
                 om1 == [om EXCEPT !.orders[internal_id] = o1]
             IN  SyncOrdersLoop(_remove_order_from_collections(om1, internal_id, "FILLED"),
                                Tail(ids), b)
        ELSE SyncOrdersLoop(om, Tail(ids), b)

\* second loop, over the live positions: a PENDING order whose ticket is a position
RECURSIVE SyncPositionsLoop(_, _, _)
SyncPositionsLoop(om, ids, b) ==
    IF ids = <<>> THEN om
    ELSE
    LET id == Head(ids)
        order == om.orders[id]
    IN  IF order.broker_order_id # NoneId /\ order.broker_order_id \in b.positions
           /\ order.status = "PENDING"
        THEN LET o1 == [SetStatus(order, "FILLED") EXCEPT !.fill_price = b.price_open]
                 om1 == [om EXCEPT !.orders[id] = o1]
                 om2 == _remove_order_from_collections(om1, id, "PENDING")
             IN  SyncPositionsLoop(_add_order_to_collections(om2, o1), Tail(ids), b)
        ELSE SyncPositionsLoop(om, Tail(ids), b)

\* the ids of the order table in insertion order
OrderIdList(om) == [i \in 1..Cardinality(DOMAIN om.orders) |-> i]

synchronize_orders_with_mt5(om, connected, b) ==
    IF ~connected THEN om
    ELSE SyncPositionsLoop(SyncOrdersLoop(om, OrderIdList(om), b), OrderIdList(om), b)

(* ----------------------------- GridManager ---------------------------- *)
\* ActiveGrid(grid_id, model_name, ...) with its member list
ActiveGrid(grid_id, model_name, order_ids) ==
    [ grid_id |-> grid_id, model_name |-> model_name, order_ids |-> order_ids,
      is_active |-> TRUE ]

\* cooldown_seconds of _handle_regenerations
cooldown_seconds == DEFAULT_COOLDOWN_PERIOD_BARS * BAR_DURATION_SECONDS

\* The attributes of a config object that _handle_regenerations reads for the
\* widening: DEFAULT_SL_TP_WIDENING_FACTOR and the REGEN_SLTP_WIDEN_FACTOR_ATTEMPT_<n>
\* that the object has, by n.  Factors are fractions <<numerator, denominator>>.
Config(default_factor, per_attempt) ==
    [ DEFAULT_SL_TP_WIDENING_FACTOR |-> default_factor,
      REGEN_SLTP_WIDEN_FACTOR_ATTEMPT |-> per_attempt ]
\* config.py sets no per-attempt factor
package_config == Config(<<WIDEN_NUM, WIDEN_DEN>>, <<>>)
\* the config object that main.py installs: 1.2, 1.5, 2.0 for the attempts 0, 1, 2
MainPyConfig ==
    Config(<<WIDEN_NUM, WIDEN_DEN>>, (0 :> <<6, 5>>) @@ (1 :> <<3, 2>>) @@ (2 :> <<2, 1>>))
\* the widening attributes of the config object of grid_manager.py: 1.2 and 1.5 for
\* the attempts 0 and 1, none for a later one
MainConfigGM == Config(<<WIDEN_NUM, WIDEN_DEN>>, (0 :> <<6, 5>>) @@ (1 :> <<3, 2>>))
Configs == { package_config, MainPyConfig, MainConfigGM }

\* a lookup under the attempt number that the regenerated order is going to carry
widen_factor_of_next_attempt(_current_config, current_attempt_for_config) ==
    IF current_attempt_for_config + 1 \in DOMAIN _current_config.REGEN_SLTP_WIDEN_FACTOR_ATTEMPT
    THEN _current_config.REGEN_SLTP_WIDEN_FACTOR_ATTEMPT[current_attempt_for_config + 1]
    ELSE _current_config.DEFAULT_SL_TP_WIDENING_FACTOR

\* getattr(_current_config, 'REGEN_SLTP_WIDEN_FACTOR_ATTEMPT_<n>',
\*         _current_config.DEFAULT_SL_TP_WIDENING_FACTOR)
widen_factor(_current_config, current_attempt_for_config) ==
    IF current_attempt_for_config \in DOMAIN _current_config.REGEN_SLTP_WIDEN_FACTOR_ATTEMPT
    THEN _current_config.REGEN_SLTP_WIDEN_FACTOR_ATTEMPT[current_attempt_for_config]
    ELSE _current_config.DEFAULT_SL_TP_WIDENING_FACTOR

\* a cooldown test that never holds a slot back
InCooldown_never(tracker, slot, t) == FALSE

\* the cooldown test of _handle_regenerations at time t
InCooldown(tracker, slot, t) ==
    LET last_event_time == Get(tracker, slot, 0)
    IN  last_event_time # 0 /\ (t - last_event_time) < cooldown_seconds

\* a tracker that is stamped only when the regenerated order was placed
Stamp_on_success(tracker, slot, t, outcome) ==
    IF outcome = "placed" THEN Put(tracker, slot, t) ELSE tracker

\* self.slot_cooldown_tracker[original_slot_id] = time.time(), written in each of the
\* four outcomes of an attempt: "lot_zero", "blocked", "placed", "place_failed"
Stamp(tracker, slot, t, outcome) == Put(tracker, slot, t)

\* regeneration parameters that keep the lot size of the stopped order
Resized_keeps_lot(regen_params, new_lot_size) == regen_params

\* regen_params['lot_size'] = new_lot_size
Resized(regen_params, new_lot_size) == [regen_params EXCEPT !.lot_size = new_lot_size]

\* The loop of _handle_regenerations over the stopped orders.  g holds the manager's
\* collections (om), slot_cooldown_tracker (tracker), active_grids (grids) and the
\* attempts made so far (attempts).  risk is what the RiskManager answers
\* (calculate_lot_size, can_open_trade, the rounding unit of get_symbol_config), tr
\* what the broker answers.
RECURSIVE RegenLoop(_, _, _, _, _, _)
RegenLoop(g, ids, t, risk, connected, tr) ==
    IF ids = <<>> THEN g
    ELSE
    LET order == g.om.orders[Head(ids)]
        rest == Tail(ids)
        original_slot_id == order.original_order_id
    IN  IF order.grid_id = NoGrid \/ order.grid_id \notin DOMAIN g.grids
        THEN RegenLoop(g, rest, t, risk, connected, tr)
        ELSE IF InCooldown(g.tracker, original_slot_id, t)
        THEN RegenLoop(g, rest, t, risk, connected, tr)
        ELSE IF needs_regeneration(g.om, order.order_id)
        THEN
          LET current_attempt_for_config == Get(g.om.regeneration_counts, original_slot_id, 0)
              f == widen_factor(g.config, current_attempt_for_config)
              regen_params == get_order_details_for_regeneration(g.om, order.order_id, f[1], f[2],
                                                                 risk.unit)
              stamped(outcome) == Stamp(g.tracker, original_slot_id, t, outcome)
              new_lot_size == risk.lot
              entry(outcome) == [ order_id |-> order.order_id, slot |-> original_slot_id,
                                  outcome |-> outcome, widen_factor |-> f,
                                  lot_args |-> <<regen_params.symbol, regen_params.entry_price,
                                                 regen_params.sl_price>>,
                                  new_lot_size |-> new_lot_size,
                                  can_open_trade |-> IF new_lot_size <= 0 THEN "not asked"
                                                     ELSE risk.can_open ]
          IN  IF regen_params.none THEN RegenLoop(g, rest, t, risk, connected, tr)
              ELSE IF new_lot_size <= 0
              THEN RegenLoop([g EXCEPT !.tracker = stamped("lot_zero"),
                                       !.attempts = Append(@, entry("lot_zero"))],
                             rest, t, risk, connected, tr)
              ELSE IF ~risk.can_open
              THEN RegenLoop([g EXCEPT !.tracker = stamped("blocked"),
                                       !.attempts = Append(@, entry("blocked"))],
                             rest, t, risk, connected, tr)
              ELSE
              LET r == place_new_order(g.om, Resized(regen_params, new_lot_size), connected, tr)
              IN  IF r.order_id # NoneId
                  THEN RegenLoop([g EXCEPT !.om = r.om,
                                           !.grids[order.grid_id].order_ids = Append(@, r.order_id),
                                           !.tracker = stamped("placed"),
                                           !.attempts = Append(@, entry("placed"))],
                                 rest, t, risk, connected, tr)
                  ELSE RegenLoop([g EXCEPT !.om = r.om,
                                           !.tracker = stamped("place_failed"),
                                           !.attempts = Append(@, entry("place_failed"))],
                                 rest, t, risk, connected, tr)
        ELSE IF Get(g.om.regeneration_counts, original_slot_id, 0) >= DEFAULT_MAX_REGENERATION_ATTEMPTS
                /\ original_slot_id \in DOMAIN g.tracker
        THEN RegenLoop([g EXCEPT !.tracker = Del(@, original_slot_id)], rest, t, risk, connected, tr)
        ELSE RegenLoop(g, rest, t, risk, connected, tr)

_handle_regenerations(g, stopped_orders, t, risk, connected, tr) ==
    RegenLoop(g, stopped_orders, t, risk, connected, tr)

\* the ids of s whose order is STOPPED_OUT, in order
RECURSIVE StoppedOf(_, _)
StoppedOf(om, s) ==
    IF s = <<>> THEN <<>>
    ELSE IF Head(s) \in DOMAIN om.orders /\ om.orders[Head(s)].status = "STOPPED_OUT"
    THEN <<Head(s)>> \o StoppedOf(om, Tail(s))
    ELSE StoppedOf(om, Tail(s))

\* an update that looks at the active positions before it looks at the pending orders
process_market_data_update_closes_first(g, md, t, risk, connected, tr) ==
    IF DOMAIN md = {} THEN [g |-> g, filled |-> <<>>, closed |-> <<>>]
    ELSE
    LET c == check_active_positions(g.om, md, connected)
        p == check_pending_orders(c.om, md, connected)
        stopped_orders == StoppedOf(p.om, c.ids)
        g1 == [g EXCEPT !.om = p.om]
    IN  [ g |-> IF stopped_orders # <<>>
                THEN _handle_regenerations(g1, stopped_orders, t, risk, connected, tr)
                ELSE g1,
          filled |-> p.ids, closed |-> c.ids ]

\* process_market_data_update(market_data) at time t; returns g and the ids filled
\* and closed by the two checks
process_market_data_update(g, md, t, risk, connected, tr) ==
    IF DOMAIN md = {} THEN [g |-> g, filled |-> <<>>, closed |-> <<>>]
    ELSE
    LET p == check_pending_orders(g.om, md, connected)
        c == check_active_positions(p.om, md, connected)
        stopped_orders == StoppedOf(c.om, c.ids)
        g1 == [g EXCEPT !.om = c.om]
    IN  [ g |-> IF stopped_orders # <<>>
                THEN _handle_regenerations(g1, stopped_orders, t, risk, connected, tr)
                ELSE g1,
          filled |-> p.ids, closed |-> c.ids ]

\* grid_id = f"grid_{model}_{symbol}_{int(time.time())}"
GridId(model_name, symbol, t) == <<model_name, symbol, t>>

\* the loop of create_new_grid without its call of can_open_trade
RECURSIVE CreateLoop_unchecked(_, _, _, _, _, _, _)
CreateLoop_unchecked(om, specs, grid_id, risk, connected, tr, placed) ==
    IF specs = <<>> THEN [om |-> om, order_ids |-> placed]
    ELSE
    LET spec == Head(specs)
        lot_size == IF spec.lot_size = 0 THEN risk.lot ELSE spec.lot_size
    IN  IF lot_size > 0
        THEN LET r == place_new_order(om,
                          [ symbol |-> spec.symbol, order_type_str |-> spec.order_type,
                            entry_price |-> spec.entry_price, sl_price |-> spec.sl,
                            tp_price |-> spec.tp, lot_size |-> lot_size,
                            grid_id |-> grid_id,
                            original_order_id_for_regen |-> spec.grid_id,
                            is_regeneration |-> FALSE ],
                          connected, tr)
             IN  CreateLoop_unchecked(r.om, Tail(specs), grid_id, risk, connected, tr,
                            IF r.order_id # NoneId THEN Append(placed, r.order_id) ELSE placed)
        ELSE CreateLoop_unchecked(om, Tail(specs), grid_id, risk, connected, tr, placed)

\* the loop of create_new_grid over desired_orders_spec; returns the manager's
\* collections and the ids placed
RECURSIVE CreateLoop(_, _, _, _, _, _, _)
CreateLoop(om, specs, grid_id, risk, connected, tr, placed) ==
    IF specs = <<>> THEN [om |-> om, order_ids |-> placed]
    ELSE
    LET spec == Head(specs)
        lot_size == IF spec.lot_size = 0 THEN risk.lot ELSE spec.lot_size
    IN  IF lot_size > 0
        THEN IF ~risk.can_open
             THEN CreateLoop(om, Tail(specs), grid_id, risk, connected, tr, placed)
             ELSE LET r == place_new_order(om,
                               [ symbol |-> spec.symbol, order_type_str |-> spec.order_type,
                                 entry_price |-> spec.entry_price, sl_price |-> spec.sl,
                                 tp_price |-> spec.tp, lot_size |-> lot_size,
                                 grid_id |-> grid_id,
                                 original_order_id_for_regen |-> spec.grid_id,
                                 is_regeneration |-> FALSE ],
                               connected, tr)
                  IN  CreateLoop(r.om, Tail(specs), grid_id, risk, connected, tr,
                                 IF r.order_id # NoneId THEN Append(placed, r.order_id) ELSE placed)
        ELSE CreateLoop(om, Tail(specs), grid_id, risk, connected, tr, placed)

\* create_new_grid that registers and returns the grid whatever was placed
create_new_grid_always(g, model_name, symbol, desired_orders_spec, t, risk, connected, tr) ==
    IF desired_orders_spec = <<>> THEN [g |-> g, grid_id |-> NoGrid]
    ELSE
    LET grid_id == GridId(model_name, symbol, t)
        r == CreateLoop(g.om, desired_orders_spec, grid_id, risk, connected, tr, <<>>)
    IN  [ g |-> [g EXCEPT !.om = r.om,
                          !.grids = Put(@, grid_id, ActiveGrid(grid_id, model_name, r.order_ids))],
          grid_id |-> grid_id ]

\* create_new_grid once the strategy model_name has produced desired_orders_spec;
\* grid_id is NoGrid when the call returns None
create_new_grid(g, model_name, symbol, desired_orders_spec, t, risk, connected, tr) ==
    IF desired_orders_spec = <<>> THEN [g |-> g, grid_id |-> NoGrid]
    ELSE
    LET grid_id == GridId(model_name, symbol, t)
        r == CreateLoop(g.om, desired_orders_spec, grid_id, risk, connected, tr, <<>>)
    IN  IF Len(r.order_ids) > 0
        THEN [ g |-> [g EXCEPT !.om = r.om,
                               !.grids = Put(@, grid_id, ActiveGrid(grid_id, model_name, r.order_ids))],
               grid_id |-> grid_id ]
        ELSE [ g |-> [g EXCEPT !.om = r.om], grid_id |-> NoGrid ]

(* ------------------------------ inputs --------------------------------- *)
Symbols == {"EURUSD", "XAUUSD"}

Request(symbol, type, entry, sl, tp, lot) ==
    [ symbol |-> symbol, order_type_str |-> type, entry_price |-> entry, sl_price |-> sl,
      tp_price |-> tp, lot_size |-> lot, grid_id |-> NoGrid,
      original_order_id_for_regen |-> NoneId, is_regeneration |-> FALSE ]

\* requests a caller passes to place_new_order: two that are registered and one
\* of each kind of rejection
PlaceRequests ==
    { Request("EURUSD", "BUY_STOP", 100, 95, 105, 1),
      Request("EURUSD", "sell_stop", 100, 105, 0, 1),
      Request("EURUSD", "BUY", 100, 95, 105, 1),
      Request("EURUSD", "BUY_STOP", 100, 95, 105, 0),
      Request("EURUSD", "BUY_STOP", 100, 100, 105, 1),
      Request("EURUSD", "BUY_LIMIT", 100, 95, 100, 1),
      Request("EURUSD", "SELL_LIMIT", 100, 100, 0, 1),
      Request("EURUSD", "SELL_STOP", 100, 105, 100, 1) }

\* one request of each order kind that place_new_order registers; the buy stop has
\* no stop-loss, the limit orders have no take-profit
KindRequests ==
    { Request("EURUSD", "BUY_STOP", 100, 0, 105, 1),
      Request("EURUSD", "SELL_STOP", 100, 105, 95, 1),
      Request("EURUSD", "BUY_LIMIT", 100, 95, 0, 1),
      Request("EURUSD", "SELL_LIMIT", 100, 105, 0, 1),
      Request("EURUSD", "MARKET_BUY", 100, 95, 105, 1),
      Request("EURUSD", "MARKET_SELL", 100, 105, 95, 1) }

\* the requests of a caller that regenerates a stopped order itself:
\* place_new_order(**get_order_details_for_regeneration(id, factor))
RegenRequests ==
    { [ f \in {"symbol", "order_type_str", "entry_price", "sl_price", "tp_price", "lot_size",
               "grid_id", "original_order_id_for_regen", "is_regeneration"} |-> d[f] ] :
        d \in { get_order_details_for_regeneration(OM, id, WIDEN_NUM, WIDEN_DEN, 1) :
                  id \in { i \in DOMAIN orders : orders[i].status = "STOPPED_OUT" } } }

\* what the broker answers to a trade request; without a connection no request is sent
TradeResults ==
    IF mt5_initialized
    THEN { [retcode |-> "FAIL", price |-> NoPrice],
           [retcode |-> "PLACED", price |-> NoPrice],
           [retcode |-> "DONE", price |-> 100] }
    ELSE { [retcode |-> "FAIL", price |-> NoPrice] }

Bar(high, low) == [high |-> high, low |-> low]
\* bars that touch the entry, run from the entry up, run across SL and TP
Bars == { Bar(100, 100), Bar(110, 100), Bar(110, 90) }
\* bars that open beyond the entry (a gap): below a long's SL, above a long's TP
GapBars == { Bar(94, 90), Bar(110, 106) }
\* bars around an entry of 100: across it, wholly above it, wholly below it, across
\* every SL and TP
KindBars == { Bar(102, 98), Bar(106, 101), Bar(99, 96), Bar(110, 90) }
\* market_data: nothing, one bar for EURUSD, one bar for another symbol
MarketDatas(bars) ==
    { <<>> } \cup { [s \in {"EURUSD"} |-> b] : b \in bars }
             \cup { [s \in {"XAUUSD"} |-> Bar(110, 90)] }

\* <<new_sl, new_tp>> of modify_order_sl_tp: nothing, or the SL moved onto the entry
\* and the TP taken away
ModifyArgs == { <<NoPrice, NoPrice>>, <<100, 0>> }

\* what the RiskManager answers: calculate_lot_size, can_open_trade, and the unit
\* that the decimals of get_symbol_config round to (CoarseUnit: a configuration
\* with fewer decimals than the prices have)
RiskAnswers == { [lot |-> 0, can_open |-> FALSE, unit |-> 1],
                 [lot |-> 0, can_open |-> TRUE, unit |-> 1],
                 [lot |-> 2, can_open |-> FALSE, unit |-> 1],
                 [lot |-> 2, can_open |-> TRUE, unit |-> 1],
                 [lot |-> 2, can_open |-> TRUE, unit |-> CoarseUnit] }

GridSpecOf(symbol, type, entry, sl, tp, lot, tag) ==
    [ symbol |-> symbol, order_type |-> type, entry_price |-> entry, sl |-> sl, tp |-> tp,
      lot_size |-> lot, grid_id |-> SlotTagBase + tag ]
\* desired_orders_spec as the strategies return it: nothing, one order, two orders
\* (the first one to be sized by the RiskManager)
StrategyOutputs ==
    { <<>>,
      << GridSpecOf("EURUSD", "BUY_STOP", 100, 97, 105, 1, 1) >>,
      << GridSpecOf("EURUSD", "SELL_STOP", 100, 105, 95, 0, 2),
         GridSpecOf("EURUSD", "BUY_STOP", 100, 97, 105, 1, 1) >> }
ModelNames == { "VolatilityGridModel" }

\* what the broker reports to synchronize_orders_with_mt5
BrokerReports ==
    LET tickets == { orders[i].broker_order_id : i \in DOMAIN orders } \ {NoneId}
    IN  { [ pending |-> p, positions |-> q, price_open |-> 100, reason |-> r, deal_price |-> 97 ] :
            p \in SUBSET tickets, q \in SUBSET tickets, r \in {"none", "SL", "TP", "CLIENT"} }

(* ------------------------------ actions -------------------------------- *)
\* last: the latest call that changed the engine or answered a placement: the call,
\* the order id it was given or returned, whether it succeeded, the ids it filled and
\* closed, the regeneration attempts it made, the specifications a grid was created
\* from, and - when it filled or closed an order - the market data it was given.  beat alternates between 0 and 1 where
\* every market update is recorded, whether it changed the engine or not.
Call(op) == [ op |-> op, md |-> <<>>, order_id |-> NoneId, ok |-> FALSE,
              filled |-> <<>>, closed |-> <<>>, attempts |-> <<>>, beat |-> 0,
              specs |-> <<>>, args |-> <<>>, result |-> <<>> ]
Effective(md, filled, closed) == IF filled = <<>> /\ closed = <<>> THEN <<>> ELSE md
\* a call that leaves the engine as it was leaves no record
Record(call, om) == IF om = OM THEN last ELSE call

SetOM(om) ==
    /\ orders' = om.orders
    /\ pending_orders' = om.pending_orders
    /\ active_positions' = om.active_positions
    /\ regeneration_counts' = om.regeneration_counts

\* the GridManager with the config object that its module holds
GMUnder(_current_config) ==
    [ om |-> OM, tracker |-> slot_cooldown_tracker, grids |-> active_grids,
      attempts |-> <<>>, config |-> _current_config ]
GM == GMUnder(package_config)

SetGM(g) ==
    /\ SetOM(g.om)
    /\ slot_cooldown_tracker' = g.tracker
    /\ active_grids' = g.grids
    /\ regen_attempt_time' =
         [ id \in (DOMAIN regen_attempt_time) \cup { g.attempts[i].order_id : i \in 1..Len(g.attempts) }
             |-> IF id \in DOMAIN regen_attempt_time THEN regen_attempt_time[id] ELSE now ]

Init ==
    /\ orders = <<>>
    /\ pending_orders = <<>>
    /\ active_positions = <<>>
    /\ regeneration_counts = <<>>
    /\ slot_cooldown_tracker = <<>>
    /\ active_grids = <<>>
    /\ mt5_initialized = FALSE
    /\ now = StartTime
    /\ last = Call("init")
    /\ regen_attempt_time = <<>>

PlaceNewOrder(cap, requests) ==
    /\ Cardinality(DOMAIN orders) < cap
    /\ \E a \in requests, tr \in TradeResults :
         LET r == place_new_order(OM, a, mt5_initialized, tr)
         IN  /\ \A slot \in DOMAIN r.om.regeneration_counts :
                  r.om.regeneration_counts[slot] <= MaxCount
             /\ SetOM(r.om)
             /\ last' = [Call("place_new_order") EXCEPT !.order_id = r.order_id,
                                                        !.ok = r.order_id # NoneId]
    /\ UNCHANGED <<slot_cooldown_tracker, active_grids, mt5_initialized, now, regen_attempt_time>>

CancelOrder ==
    /\ \E id \in 1..(Cardinality(DOMAIN orders) + 1), removed \in BOOLEAN :
         LET r == cancel_order(OM, id, mt5_initialized, removed)
         IN  /\ SetOM(r.om)
             /\ last' = Record([Call("cancel_order") EXCEPT !.order_id = id, !.ok = r.ok], r.om)
    /\ UNCHANGED <<slot_cooldown_tracker, active_grids, mt5_initialized, now, regen_attempt_time>>

ModifyOrderSlTp ==
    /\ \E id \in 1..(Cardinality(DOMAIN orders) + 1), new \in ModifyArgs,
          modified \in BOOLEAN :
         LET r == modify_order_sl_tp(OM, id, new[1], new[2], mt5_initialized, modified)
         IN  /\ SetOM(r.om)
             /\ last' = Record([Call("modify_order_sl_tp") EXCEPT !.order_id = id, !.ok = r.ok],
                               r.om)
    /\ UNCHANGED <<slot_cooldown_tracker, active_grids, mt5_initialized, now, regen_attempt_time>>

SynchronizeOrdersWithMt5 ==
    /\ \E b \in BrokerReports :
         LET om == synchronize_orders_with_mt5(OM, mt5_initialized, b)
         IN  /\ SetOM(om)
             /\ last' = Record(Call("synchronize_orders_with_mt5"), om)
    /\ UNCHANGED <<slot_cooldown_tracker, active_grids, mt5_initialized, now, regen_attempt_time>>

CheckPendingOrders(bars) ==
    /\ \E md \in MarketDatas(bars) :
         LET r == check_pending_orders(OM, md, mt5_initialized)
         IN  /\ SetOM(r.om)
             /\ last' = Record([Call("check_pending_orders") EXCEPT
                                   !.md = Effective(md, r.ids, <<>>), !.filled = r.ids], r.om)
    /\ UNCHANGED <<slot_cooldown_tracker, active_grids, mt5_initialized, now, regen_attempt_time>>

CheckActivePositions(bars) ==
    /\ \E md \in MarketDatas(bars) :
         LET r == check_active_positions(OM, md, mt5_initialized)
         IN  /\ SetOM(r.om)
             /\ last' = Record([Call("check_active_positions") EXCEPT
                                   !.md = Effective(md, <<>>, r.ids), !.closed = r.ids], r.om)
    /\ UNCHANGED <<slot_cooldown_tracker, active_grids, mt5_initialized, now, regen_attempt_time>>

\* an update may regenerate every position it closes; every_update: each update is
\* recorded in last
ProcessMarketDataUpdateUnder(configs, bars, cap, every_update) ==
    /\ Cardinality(DOMAIN orders) + Len(pending_orders) + Len(active_positions) <= cap
    /\ \E _current_config \in configs, md \in MarketDatas(bars), risk \in RiskAnswers,
          tr \in TradeResults :
         LET r == process_market_data_update(GMUnder(_current_config), md, now, risk,
                                             mt5_initialized, tr)
             call == [Call("process_market_data_update") EXCEPT
                         !.md = Effective(md, r.filled, r.closed),
                         !.filled = r.filled, !.closed = r.closed,
                         !.attempts = r.g.attempts,
                         !.args = IF r.g.attempts = <<>> THEN <<>> ELSE _current_config]
         IN  /\ SetGM(r.g)
             /\ last' = IF every_update THEN [call EXCEPT !.beat = 1 - last.beat]
                        ELSE Record(call, r.g.om)
    /\ UNCHANGED <<mt5_initialized, now>>

\* the update under the config of config.py
ProcessMarketDataUpdate(bars, cap, every_update) ==
    ProcessMarketDataUpdateUnder({package_config}, bars, cap, every_update)

CreateNewGrid(cap, grids) ==
    /\ Cardinality(DOMAIN active_grids) < grids
    /\ \E model_name \in ModelNames, specs \in StrategyOutputs,
          risk \in RiskAnswers, tr \in TradeResults :
         /\ Cardinality(DOMAIN orders) + Len(specs) <= cap
         /\ LET r == create_new_grid(GM, model_name, "EURUSD", specs, now, risk,
                                     mt5_initialized, tr)
            IN  /\ SetGM(r.g)
                /\ last' = Record([Call("create_new_grid") EXCEPT !.ok = r.grid_id # NoGrid,
                                                                    !.specs = specs],
                                  r.g.om)
    /\ UNCHANGED <<mt5_initialized, now>>

\* connect_to_mt5 / disconnect_from_mt5
ConnectToMt5 ==
    /\ ~mt5_initialized
    /\ mt5_initialized' = TRUE
    /\ last' = Call("connect_to_mt5")
    /\ UNCHANGED <<orders, pending_orders, active_positions, regeneration_counts,
                   slot_cooldown_tracker, active_grids, now, regen_attempt_time>>

DisconnectFromMt5 ==
    /\ mt5_initialized
    /\ mt5_initialized' = FALSE
    /\ last' = Call("disconnect_from_mt5")
    /\ UNCHANGED <<orders, pending_orders, active_positions, regeneration_counts,
                   slot_cooldown_tracker, active_grids, now, regen_attempt_time>>

\* the wall clock advances by one of the steps dts
Tick(dts) ==
    /\ \E dt \in dts :
         /\ now + dt <= StartTime + MaxElapsedBars * BAR_DURATION_SECONDS
         /\ now' = now + dt
    /\ last' = Call("tick")
    /\ UNCHANGED <<orders, pending_orders, active_positions, regeneration_counts,
                   slot_cooldown_tracker, active_grids, mt5_initialized, regen_attempt_time>>

Next ==
    \/ PlaceNewOrder(MaxOrders, PlaceRequests \cup RegenRequests)
    \/ CancelOrder
    \/ ModifyOrderSlTp
    \/ SynchronizeOrdersWithMt5
    \/ CheckPendingOrders(Bars)
    \/ CheckActivePositions(Bars)
    \/ ProcessMarketDataUpdate(Bars, MaxOrders, FALSE)
    \/ CreateNewGrid(MaxOrders, MaxGrids)
    \/ ConnectToMt5
    \/ DisconnectFromMt5

Spec == Init /\ [][Next]_vars

\* the engine driven by the GridManager alone, in simulation mode; the clock is
\* read one bar before a cooldown has passed, or when one has passed
NextGrid ==
    \/ CreateNewGrid(MaxGridOrders, MaxGrids)
    \/ ProcessMarketDataUpdate(Bars \cup GapBars, MaxGridOrders, FALSE)
    \/ Tick({cooldown_seconds - BAR_DURATION_SECONDS, cooldown_seconds})

GridSpec == Init /\ [][NextGrid]_vars

\* the GridManager under a stream of market updates that does not end and a clock
\* that does not stop before MaxElapsedBars
GridClock == Tick({cooldown_seconds - BAR_DURATION_SECONDS, cooldown_seconds})
MarketUpdate == ProcessMarketDataUpdate(Bars, MaxLiveOrders, TRUE)
NextLive ==
    \/ CreateNewGrid(MaxLiveOrders, MaxGrids)
    \/ MarketUpdate
    \/ GridClock

LiveSpec == Init /\ [][NextLive]_vars /\ WF_vars(MarketUpdate) /\ WF_vars(GridClock)

\* the OrderManager alone with orders of every kind, with and without a broker
NextKinds ==
    \/ PlaceNewOrder(MaxKindOrders, KindRequests)
    \/ CheckPendingOrders(KindBars)
    \/ CheckActivePositions(KindBars)
    \/ SynchronizeOrdersWithMt5
    \/ ConnectToMt5
    \/ DisconnectFromMt5

KindSpec == Init /\ [][NextKinds]_vars

(* ------------------------------ C1 ------------------------------------- *)
AllowedTransitions ==
    ({"PENDING"} \X {"FILLED", "ACTIVE", "CANCELLED"})
      \cup ({"FILLED", "ACTIVE"} \X {"STOPPED_OUT", "TP_HIT", "CLOSED"})

\* C1: in every step of the engine (place_new_order, cancel_order,
\* modify_order_sl_tp, the two checks, process_market_data_update, create_new_grid,
\* synchronize_orders_with_mt5) every order stays registered and every change of its
\* status goes PENDING -> FILLED/ACTIVE, PENDING -> CANCELLED or FILLED/ACTIVE ->
\* STOPPED_OUT / TP_HIT / CLOSED; the status of a CANCELLED, STOPPED_OUT, TP_HIT or
\* CLOSED order does not change.
C1_StatusTransitions ==
    [][ /\ DOMAIN orders \subseteq DOMAIN orders'
        /\ \A id \in DOMAIN orders' :
             LET old == IF id \in DOMAIN orders THEN orders[id].status_log ELSE <<"PENDING">>
                 new == orders'[id].status_log
             IN  /\ Len(new) >= Len(old)
                 /\ SubSeq(new, 1, Len(old)) = old
                 /\ new[Len(new)] = orders'[id].status
                 /\ \A i \in Len(old)..(Len(new) - 1) :
                      <<new[i], new[i + 1]>> \in AllowedTransitions ]_vars

\* one order was cancelled while pending; another was filled, closed by its stop,
\* and a later call was made with the closed order still in the table
C1_Witness ==
    \E a, b \in DOMAIN orders :
        /\ orders[a].status_log = <<"PENDING", "CANCELLED">>
        /\ orders[b].status_log = <<"PENDING", "FILLED", "STOPPED_OUT">>
        /\ last.op \in {"cancel_order", "modify_order_sl_tp"}

(* ------------------------------ C2 ------------------------------------- *)
\* the orders that regeneration placed for a slot
RegeneratedOrders(slot) ==
    { id \in DOMAIN orders :
        orders[id].original_order_id = slot /\ orders[id].regeneration_attempts > 0 }

\* C2: after any sequence of create_new_grid and process_market_data_update calls
\* the regeneration counter of every slot is at most
\* DEFAULT_MAX_REGENERATION_ATTEMPTS, and no slot has more regenerated orders than
\* that.
C2_CounterBounded ==
    \A slot \in DOMAIN regeneration_counts :
        /\ regeneration_counts[slot] <= DEFAULT_MAX_REGENERATION_ATTEMPTS
        /\ Cardinality(RegeneratedOrders(slot)) <= DEFAULT_MAX_REGENERATION_ATTEMPTS

\* a slot has used all its attempts, and the update just made stopped out the last
\* order regenerated for it
C2_Witness ==
    /\ last.op = "process_market_data_update"
    /\ \E i \in 1..Len(last.closed) :
         LET order == orders[last.closed[i]]
         IN  /\ order.status = "STOPPED_OUT"
             /\ order.regeneration_attempts = DEFAULT_MAX_REGENERATION_ATTEMPTS
             /\ regeneration_counts[order.original_order_id] = DEFAULT_MAX_REGENERATION_ATTEMPTS

(* ------------------------------ C3 ------------------------------------- *)
IsLong(order) == order.order_type \in {"BUY_LIMIT", "BUY_STOP", "MARKET_BUY"}

\* the bar reaches both the (non-zero) stop-loss and the (non-zero) take-profit
CrossesBoth(order, bar) ==
    /\ order.sl_price # 0 /\ order.tp_price # 0
    /\ IF IsLong(order)
       THEN bar.low <= order.sl_price /\ bar.high >= order.tp_price
       ELSE bar.high >= order.sl_price /\ bar.low <= order.tp_price

\* bars offered to check_active_positions in every reachable state
ProbeBars == { Bar(h, l) : h \in {100, 105, 106, 110}, l \in {90, 94, 95, 97, 100} }

\* C3: in every reachable state, check_active_positions given a bar that crosses
\* both the non-zero SL and the non-zero TP of an active order never makes that
\* order TP_HIT, and (bar-range simulation, i.e. no broker connection) makes it
\* STOPPED_OUT with close price equal to its SL and reports it closed.
C3_StopLossWins ==
    \A id \in DOMAIN orders, bar \in ProbeBars :
        LET order == orders[id]
            r == check_active_positions(OM, [s \in {order.symbol} |-> bar], mt5_initialized)
            after == r.om.orders[id]
        IN  (Contains(active_positions, id) /\ CrossesBoth(order, bar)) =>
               /\ after.status # "TP_HIT"
               /\ ~mt5_initialized =>
                    /\ after.status = "STOPPED_OUT"
                    /\ after.close_price = order.sl_price
                    /\ Contains(r.ids, id)

\* check_active_positions has just closed a position on a bar that crossed both its
\* SL and its TP: the position is STOPPED_OUT at its SL
C3_Witness ==
    /\ last.op = "check_active_positions"
    /\ \E i \in 1..Len(last.closed) :
         LET order == orders[last.closed[i]]
         IN  /\ CrossesBoth(order, last.md[order.symbol])
             /\ order.status = "STOPPED_OUT"
             /\ order.close_price = order.sl_price

(* ------------------------------ C4 ------------------------------------- *)
\* C4: in every reachable state every PENDING BUY_LIMIT / BUY_STOP order has
\* entry > SL and (TP = 0 or TP > entry), every PENDING SELL_LIMIT / SELL_STOP order
\* has entry < SL and (TP = 0 or TP < entry), and every registered order has a lot
\* size > 0.
C4_PendingGeometry ==
    \A id \in DOMAIN orders :
        LET order == orders[id]
        IN  /\ order.lot_size > 0
            /\ (order.status = "PENDING" /\ order.order_type \in {"BUY_LIMIT", "BUY_STOP"}) =>
                  /\ order.entry_price > order.sl_price
                  /\ order.tp_price = 0 \/ order.tp_price > order.entry_price
            /\ (order.status = "PENDING" /\ order.order_type \in {"SELL_LIMIT", "SELL_STOP"}) =>
                  /\ order.entry_price < order.sl_price
                  /\ order.tp_price = 0 \/ order.tp_price < order.entry_price

(* ------------------------------ C5 ------------------------------------- *)
\* requests offered to place_new_order in every reachable state: every kind of
\* order, SL and TP below, on and above the entry, a negative, zero and positive lot
ProbeRequests ==
    { Request("EURUSD", type, 100, sl, tp, lot) :
        type \in {"BUY_LIMIT", "BUY_STOP", "SELL_LIMIT", "SELL_STOP", "sell_stop", "BUY"},
        sl \in {0, 95, 100, 105}, tp \in {0, 95, 100, 105}, lot \in {0 - 1, 0, 1} }

IsBuyPending(a) == Upper(a.order_type_str) \in {"BUY_LIMIT", "BUY_STOP"}
IsSellPending(a) == Upper(a.order_type_str) \in {"SELL_LIMIT", "SELL_STOP"}

\* the requests the claim says are turned down
MustReject(a) ==
    \/ Upper(a.order_type_str) \notin
         {"BUY_LIMIT", "SELL_LIMIT", "BUY_STOP", "SELL_STOP", "MARKET_BUY", "MARKET_SELL"}
    \/ a.lot_size <= 0
    \/ IsBuyPending(a) /\ (a.entry_price <= a.sl_price
                             \/ (a.tp_price # 0 /\ a.tp_price <= a.entry_price))
    \/ IsSellPending(a) /\ (a.entry_price >= a.sl_price
                              \/ (a.tp_price # 0 /\ a.tp_price >= a.entry_price))

\* C5: in every reachable state and whatever the broker answers, place_new_order
\* returns None and registers nothing when the order type is unknown, the lot size is
\* <= 0, a buy limit/stop has entry <= SL or (TP # 0 and TP <= entry), or a sell
\* limit/stop has entry >= SL or (TP # 0 and TP >= entry); without a broker
\* connection every other limit/stop request is registered under a new id as a
\* PENDING order carrying the request's prices and lot.
C5_PlaceValidation ==
    \A a \in ProbeRequests, tr \in TradeResults :
        LET r == place_new_order(OM, a, mt5_initialized, tr)
        IN  /\ MustReject(a) => (r.order_id = NoneId /\ r.om = OM)
            /\ (~MustReject(a) /\ (IsBuyPending(a) \/ IsSellPending(a)) /\ ~mt5_initialized) =>
                  /\ r.order_id # NoneId
                  /\ r.order_id \notin DOMAIN orders
                  /\ DOMAIN r.om.orders = DOMAIN orders \cup {r.order_id}
                  /\ \A id \in DOMAIN orders : r.om.orders[id] = orders[id]
                  /\ r.om.pending_orders = Append(pending_orders, r.order_id)
                  /\ r.om.active_positions = active_positions
                  /\ LET order == r.om.orders[r.order_id]
                     IN  /\ order.status = "PENDING"
                         /\ order.order_type = Upper(a.order_type_str)
                         /\ order.entry_price = a.entry_price
                         /\ order.sl_price = a.sl_price
                         /\ order.tp_price = a.tp_price
                         /\ order.lot_size = a.lot_size

\* place_new_order has just turned a request down, without a broker connection and
\* with an order it accepted earlier still pending
C5_Witness ==
    /\ last.op = "place_new_order"
    /\ last.order_id = NoneId
    /\ ~mt5_initialized
    /\ \E id \in DOMAIN orders :
         orders[id].status = "PENDING" /\ orders[id].broker_order_id = NoneId

(* ------------------------------ C6 ------------------------------------- *)
\* the regeneration counter of the slot of a registered order
SlotCount(id) == Get(regeneration_counts, orders[id].original_order_id, 0)

\* C6: in every reachable state and for every order id, registered or not,
\* needs_regeneration(order_id) is True if and only if the order exists, its status
\* is STOPPED_OUT and the counter of its slot is below
\* DEFAULT_MAX_REGENERATION_ATTEMPTS.
C6_NeedsRegeneration ==
    \A id \in 0..(Cardinality(DOMAIN orders) + 1) :
        needs_regeneration(OM, id) <=>
            /\ id \in DOMAIN orders
            /\ orders[id].status = "STOPPED_OUT"
            /\ SlotCount(id) < DEFAULT_MAX_REGENERATION_ATTEMPTS

\* two STOPPED_OUT orders: the slot of one has used all its attempts, the slot of
\* the other has not
C6_Witness ==
    \E a, b \in DOMAIN orders :
        /\ orders[a].status = "STOPPED_OUT" /\ orders[b].status = "STOPPED_OUT"
        /\ SlotCount(a) = DEFAULT_MAX_REGENERATION_ATTEMPTS
        /\ ~needs_regeneration(OM, a)
        /\ SlotCount(b) < DEFAULT_MAX_REGENERATION_ATTEMPTS
        /\ needs_regeneration(OM, b)

(* ------------------------------ C7 ------------------------------------- *)
\* order id of a registered grid is STOPPED_OUT and its slot has attempts left
Eligible(id) ==
    /\ id \in DOMAIN orders
    /\ orders[id].status = "STOPPED_OUT"
    /\ orders[id].grid_id \in DOMAIN active_grids
    /\ SlotCount(id) < DEFAULT_MAX_REGENERATION_ATTEMPTS

\* _handle_regenerations has attempted a regeneration for order id or for a later
\* order of its slot
AttemptedFor(id) ==
    /\ id \in DOMAIN orders
    /\ \E b \in DOMAIN regen_attempt_time :
         b >= id /\ orders[b].original_order_id = orders[id].original_order_id

\* the model's clock cannot reach the end of the cooldown of the slot of order id
ClockEndsInCooldown(id) ==
    /\ id \in DOMAIN orders
    /\ InCooldown(slot_cooldown_tracker, orders[id].original_order_id, now)
    /\ now + (cooldown_seconds - BAR_DURATION_SECONDS)
         > StartTime + MaxElapsedBars * BAR_DURATION_SECONDS

\* the model takes no further market update
UpdatesEnd ==
    Cardinality(DOMAIN orders) + Len(pending_orders) + Len(active_positions) > MaxLiveOrders

\* C7: while market updates keep arriving and the clock runs, an order of a
\* registered grid that is STOPPED_OUT with the counter of its slot below the maximum
\* is eventually followed by a regeneration attempt for its slot (unless the model's
\* clock or its stream of updates ends first) - also when the order was stopped out
\* during the cooldown of its slot or after an attempt for the slot that failed.
C7_RegenerationLiveness ==
    \A id \in 1..MaxLiveOrders :
        [](Eligible(id) => <>(AttemptedFor(id) \/ ClockEndsInCooldown(id) \/ UpdatesEnd))

(* ------------------------------ C8 ------------------------------------- *)
\* C8: every regeneration attempt that a process_market_data_update makes for a
\* slot (placing the regenerated order is part of an attempt) comes at least
\* DEFAULT_COOLDOWN_PERIOD_BARS * bar_duration_seconds after the time recorded for
\* the slot in slot_cooldown_tracker and after every earlier attempt for the slot,
\* and one update makes at most one attempt per slot.
C8_CooldownSeparation ==
    [][ LET new == DOMAIN regen_attempt_time' \ DOMAIN regen_attempt_time
            slot(id) == orders'[id].original_order_id
        IN  \A id \in new :
              /\ slot(id) \in DOMAIN slot_cooldown_tracker =>
                    now - slot_cooldown_tracker[slot(id)] >= cooldown_seconds
              /\ \A b \in DOMAIN regen_attempt_time :
                    slot(b) = slot(id) => now - regen_attempt_time[b] >= cooldown_seconds
              /\ \A b \in new : slot(b) = slot(id) => b = id ]_vars

\* a slot had an attempt, a second one exactly one cooldown later, and a third order
\* of the slot was stopped out during the cooldown and passed over
C8_Witness ==
    \E a, b, c \in DOMAIN orders :
        /\ a \in DOMAIN regen_attempt_time /\ b \in DOMAIN regen_attempt_time
        /\ orders[a].original_order_id = orders[b].original_order_id
        /\ orders[c].original_order_id = orders[b].original_order_id
        /\ regen_attempt_time[b] - regen_attempt_time[a] = cooldown_seconds
        /\ orders[c].status = "STOPPED_OUT"
        /\ c \notin DOMAIN regen_attempt_time

(* ------------------------------ C9 ------------------------------------- *)
\* order id is stopped out in this step and is eligible for a regeneration attempt:
\* its grid is registered, its slot is not in cooldown at the time of the update, and
\* needs_regeneration holds (the counter of its slot is below the maximum)
StoppedAndEligible(id) ==
    /\ orders[id].status # "STOPPED_OUT"
    /\ orders'[id].status = "STOPPED_OUT"
    /\ orders[id].grid_id \in DOMAIN active_grids
    /\ ~InCooldown(slot_cooldown_tracker, orders[id].original_order_id, now)
    /\ SlotCount(id) < DEFAULT_MAX_REGENERATION_ATTEMPTS

\* C9: whenever process_market_data_update stops out an order that is eligible for
\* a regeneration attempt, the update leaves slot_cooldown_tracker[slot] equal to the
\* current time - whether the regenerated order was placed, calculate_lot_size
\* returned <= 0, can_open_trade returned False, or place_new_order returned None.
C9_CooldownStamped ==
    [][ \A id \in DOMAIN orders :
          StoppedAndEligible(id) =>
            /\ orders[id].original_order_id \in DOMAIN slot_cooldown_tracker'
            /\ slot_cooldown_tracker'[orders[id].original_order_id] = now ]_vars

\* one update has stopped out two orders; one regeneration was placed, the other was
\* turned down by place_new_order, and both slots carry the time of the update
C9_Witness ==
    /\ last.op = "process_market_data_update"
    /\ \E i, j \in 1..Len(last.attempts) :
         /\ last.attempts[i].outcome = "placed"
         /\ last.attempts[j].outcome = "place_failed"
         /\ slot_cooldown_tracker[last.attempts[i].slot] = now
         /\ slot_cooldown_tracker[last.attempts[j].slot] = now

(* ------------------------------ C10 ------------------------------------ *)
Elements(list) == { list[i] : i \in 1..Len(list) }
DuplicateFree(list) == Cardinality(Elements(list)) = Len(list)

\* C10: in every reachable state pending_orders holds exactly the ids of the PENDING
\* orders and active_positions exactly the ids of the FILLED / ACTIVE orders, each id
\* once and no id in both, so that the id of a CANCELLED, STOPPED_OUT, TP_HIT or
\* CLOSED order is in neither list: a fill takes the id from pending_orders to
\* active_positions and a close takes it out of active_positions.
C10_CollectionsMatchStatus ==
    /\ Elements(pending_orders) = { id \in DOMAIN orders : orders[id].status = "PENDING" }
    /\ Elements(active_positions) =
         { id \in DOMAIN orders : orders[id].status \in {"FILLED", "ACTIVE"} }
    /\ DuplicateFree(pending_orders)
    /\ DuplicateFree(active_positions)
    /\ Elements(pending_orders) \cap Elements(active_positions) = {}
    /\ \A id \in DOMAIN orders :
         orders[id].status \in {"CANCELLED", "STOPPED_OUT", "TP_HIT", "CLOSED"} =>
            id \notin Elements(pending_orders) \cup Elements(active_positions)

\* an update has just filled one order, which is now in active_positions alone, and
\* closed another, which is in neither list
C10_Witness ==
    /\ last.op \in {"process_market_data_update", "synchronize_orders_with_mt5"}
    /\ \E a, b \in DOMAIN orders :
         /\ orders[a].status_log = <<"PENDING", "FILLED">>
         /\ Contains(active_positions, a) /\ ~Contains(pending_orders, a)
         /\ Len(orders[b].status_log) = 3
         /\ ~Contains(active_positions, b) /\ ~Contains(pending_orders, b)

(* ------------------------------ C11 ------------------------------------ *)
\* bars offered to check_pending_orders in every reachable state: below, on and
\* above an entry of 100
FillProbeBars == { Bar(h, l) : h \in {98, 100, 102}, l \in {97, 100, 101} } \ { Bar(98, 100), Bar(98, 101), Bar(100, 101) }

\* the condition under which the bar fills the order
FillCondition(order, bar) ==
    \/ order.order_type = "BUY_STOP" /\ bar.high >= order.entry_price
    \/ order.order_type = "SELL_STOP" /\ bar.low <= order.entry_price
    \/ order.order_type = "BUY_LIMIT" /\ bar.low <= order.entry_price
    \/ order.order_type = "SELL_LIMIT" /\ bar.high >= order.entry_price

\* C11: in every reachable state without a broker connection, check_pending_orders
\* makes a PENDING order FILLED exactly when the market data holds a bar for its
\* symbol and - buy stop: high >= entry; sell stop: low <= entry; buy limit:
\* low <= entry; sell limit: high >= entry.  Every other PENDING order stays as it
\* is, and so does every order that is not PENDING.
C11_PendingFills ==
    ~mt5_initialized =>
      \A md \in MarketDatas(FillProbeBars) :
        LET r == check_pending_orders(OM, md, mt5_initialized)
        IN  /\ DOMAIN r.om.orders = DOMAIN orders
            /\ \A id \in DOMAIN orders :
                 LET order == orders[id]
                     after == r.om.orders[id]
                     fills == /\ order.status = "PENDING"
                              /\ order.symbol \in DOMAIN md
                              /\ FillCondition(order, md[order.symbol])
                 IN  IF fills
                     THEN /\ after.status = "FILLED"
                          /\ Contains(r.ids, id)
                          /\ Contains(r.om.active_positions, id)
                          /\ ~Contains(r.om.pending_orders, id)
                     ELSE /\ after = order
                          /\ ~Contains(r.ids, id)
                          /\ Contains(r.om.pending_orders, id) <=> Contains(pending_orders, id)

\* check_pending_orders has just filled one order and left another PENDING whose
\* condition the same bar did not meet
C11_Witness ==
    /\ last.op = "check_pending_orders"
    /\ ~mt5_initialized
    /\ \E a, b \in DOMAIN orders :
         /\ Contains(last.filled, a) /\ orders[a].status = "FILLED"
         /\ FillCondition(orders[a], last.md[orders[a].symbol])
         /\ orders[b].status = "PENDING"
         /\ orders[b].order_type \in {"BUY_STOP", "SELL_STOP", "BUY_LIMIT", "SELL_LIMIT"}
         /\ ~FillCondition(orders[b], last.md[orders[b].symbol])

(* ------------------------------ C12 ------------------------------------ *)
\* the fill price the bar gives the order
ExpectedFillPrice(order, bar) ==
    IF bar.low <= order.entry_price /\ order.entry_price <= bar.high
    THEN order.entry_price
    ELSE IF order.order_type \in {"BUY_STOP", "SELL_LIMIT"}
    THEN Max(order.entry_price, bar.low)
    ELSE Min(order.entry_price, bar.high)

\* C12: in every reachable state without a broker connection, the fill price that
\* check_pending_orders records for an order it fills is the entry price when
\* low <= entry <= high, and otherwise max(entry, low) for a buy stop or sell limit
\* and min(entry, high) for a sell stop or buy limit; a buy stop is never filled
\* below its entry and a sell stop never above its entry.
C12_FillPrice ==
    ~mt5_initialized =>
      \A bar \in FillProbeBars, id \in DOMAIN orders :
        LET order == orders[id]
            r == check_pending_orders(OM, [s \in {order.symbol} |-> bar], mt5_initialized)
            after == r.om.orders[id]
        IN  Contains(r.ids, id) =>
              /\ after.fill_price = ExpectedFillPrice(order, bar)
              /\ order.order_type = "BUY_STOP" => after.fill_price >= order.entry_price
              /\ order.order_type = "SELL_STOP" => after.fill_price <= order.entry_price

\* check_pending_orders has just filled a buy stop on a bar that lies wholly above
\* its entry, at the low of the bar, and a sell limit on the same bar
C12_Witness ==
    /\ last.op = "check_pending_orders"
    /\ \E a, b \in DOMAIN orders :
         /\ Contains(last.filled, a) /\ Contains(last.filled, b)
         /\ orders[a].order_type = "BUY_STOP"
         /\ last.md[orders[a].symbol].low > orders[a].entry_price
         /\ orders[a].fill_price = last.md[orders[a].symbol].low
         /\ orders[b].order_type = "SELL_LIMIT"
         /\ orders[b].fill_price = orders[a].fill_price

(* ------------------------------ C13 ------------------------------------ *)
\* the status the bar gives an active order: STOPPED_OUT, TP_HIT, or the one it has
ExpectedClose(order, bar) ==
    IF IsLong(order)
    THEN IF order.sl_price # 0 /\ bar.low <= order.sl_price THEN "STOPPED_OUT"
         ELSE IF order.tp_price # 0 /\ bar.high >= order.tp_price THEN "TP_HIT"
         ELSE order.status
    ELSE IF order.sl_price # 0 /\ bar.high >= order.sl_price THEN "STOPPED_OUT"
         ELSE IF order.tp_price # 0 /\ bar.low <= order.tp_price THEN "TP_HIT"
         ELSE order.status

\* C13: in every reachable state without a broker connection,
\* check_active_positions closes an active order only so: a long is STOPPED_OUT if
\* SL # 0 and low <= SL, else TP_HIT if TP # 0 and high >= TP; a short is STOPPED_OUT
\* if SL # 0 and high >= SL, else TP_HIT if TP # 0 and low <= TP.  The close price is
\* the SL (the TP) itself, and in every other case - no bar for the symbol included -
\* the order stays in active_positions unchanged.
C13_ActiveCloses ==
    ~mt5_initialized =>
      \A md \in MarketDatas(ProbeBars), id \in DOMAIN orders :
        LET order == orders[id]
            r == check_active_positions(OM, md, mt5_initialized)
            after == r.om.orders[id]
            expected == IF Contains(active_positions, id) /\ order.symbol \in DOMAIN md
                        THEN ExpectedClose(order, md[order.symbol])
                        ELSE order.status
        IN  /\ after.status = expected
            /\ IF expected = order.status
               THEN /\ after = order
                    /\ ~Contains(r.ids, id)
                    /\ Contains(r.om.active_positions, id) <=> Contains(active_positions, id)
               ELSE /\ after.close_price = IF expected = "STOPPED_OUT" THEN order.sl_price
                                           ELSE order.tp_price
                    /\ Contains(r.ids, id)
                    /\ ~Contains(r.om.active_positions, id)

\* check_active_positions has just closed one position at its TP on a bar that
\* runs beyond it, and has left open a long that has no take-profit
C13_Witness ==
    /\ last.op = "check_active_positions"
    /\ ~mt5_initialized
    /\ \E a, b \in DOMAIN orders :
         /\ Contains(last.closed, a)
         /\ orders[a].status = "TP_HIT"
         /\ orders[a].close_price = orders[a].tp_price
         /\ IF IsLong(orders[a]) THEN last.md[orders[a].symbol].high > orders[a].tp_price
            ELSE last.md[orders[a].symbol].low < orders[a].tp_price
         /\ Contains(active_positions, b)
         /\ IsLong(orders[b]) /\ orders[b].tp_price = 0

(* ------------------------------ C14 ------------------------------------ *)
\* C14: in every reachable state, for every order id (registered or not) and
\* whatever the broker answers, cancel_order returns True only for a registered
\* PENDING order, which it makes CANCELLED and takes out of pending_orders, every
\* other order and active_positions staying as they are; for an unknown id or an
\* order that is not PENDING it returns False and leaves the order table,
\* pending_orders and active_positions unchanged.
C14_Cancel ==
    \A id \in 0..(Cardinality(DOMAIN orders) + 1), removed \in BOOLEAN :
        LET r == cancel_order(OM, id, mt5_initialized, removed)
        IN  /\ r.ok =>
                  /\ id \in DOMAIN orders
                  /\ orders[id].status = "PENDING"
                  /\ r.om.orders[id].status = "CANCELLED"
                  /\ DOMAIN r.om.orders = DOMAIN orders
                  /\ \A b \in DOMAIN orders \ {id} : r.om.orders[b] = orders[b]
                  /\ Contains(pending_orders, id)
                  /\ r.om.pending_orders = ListRemove(pending_orders, id)
                  /\ ~Contains(r.om.pending_orders, id)
                  /\ r.om.active_positions = active_positions
            /\ (id \notin DOMAIN orders \/ orders[id].status # "PENDING") =>
                  /\ ~r.ok
                  /\ r.om = OM

\* cancel_order has just cancelled a pending order, with a filled order and a closed
\* order in the table, which it would turn down
C14_Witness ==
    /\ last.op = "cancel_order" /\ last.ok
    /\ orders[last.order_id].status = "CANCELLED"
    /\ ~Contains(pending_orders, last.order_id)
    /\ \E a \in DOMAIN orders :
         /\ orders[a].status \in {"FILLED", "STOPPED_OUT", "TP_HIT", "CLOSED"}
         /\ ~cancel_order(OM, a, mt5_initialized, TRUE).ok

(* ------------------------------ C15 ------------------------------------ *)
\* <<new_sl, new_tp>> offered to modify_order_sl_tp in every reachable state
ModifyProbes == { <<NoPrice, NoPrice>>, <<100, 0>>, <<90, NoPrice>>, <<NoPrice, 110>> }

Terminal(order) == order.status \in {"CANCELLED", "STOPPED_OUT", "TP_HIT", "CLOSED"}

\* the order after modify_order_sl_tp has set the values supplied
WithSlTp(order, new_sl, new_tp) ==
    [order EXCEPT !.sl_price = IF new_sl # NoPrice THEN new_sl ELSE @,
                  !.tp_price = IF new_tp # NoPrice THEN new_tp ELSE @]

\* what the claim says of one call: refused is the case the claim leaves room for
ModifyAsClaimed(id, new, r, refused) ==
    IF id \notin DOMAIN orders \/ Terminal(orders[id]) \/ refused
    THEN ~r.ok /\ r.om = OM
    ELSE /\ r.ok
         /\ r.om.orders = [orders EXCEPT ![id] = WithSlTp(orders[id], new[1], new[2])]
         /\ r.om.pending_orders = pending_orders
         /\ r.om.active_positions = active_positions
         /\ r.om.regeneration_counts = regeneration_counts

\* C15 as stated: in every reachable state modify_order_sl_tp returns False and
\* changes nothing for an unknown or CANCELLED / STOPPED_OUT / TP_HIT / CLOSED order,
\* and for every PENDING or FILLED / ACTIVE order it sets exactly the SL and TP
\* supplied, leaving status, entry, lot size, slot id, list membership and every
\* other order unchanged.
C15_ModifyAsStated ==
    \A id \in 0..(Cardinality(DOMAIN orders) + 1), new \in ModifyProbes, modified \in BOOLEAN :
        ModifyAsClaimed(id, new, modify_order_sl_tp(OM, id, new[1], new[2], mt5_initialized, modified),
                        FALSE)

\* C15 amended: as stated, except that with a broker connection, for an order that
\* has a broker ticket, a request the broker refuses makes modify_order_sl_tp
\* return False and change nothing also for a PENDING or FILLED / ACTIVE order.
C15_ModifyUnlessRefused ==
    \A id \in 0..(Cardinality(DOMAIN orders) + 1), new \in ModifyProbes, modified \in BOOLEAN :
        ModifyAsClaimed(id, new, modify_order_sl_tp(OM, id, new[1], new[2], mt5_initialized, modified),
                        /\ id \in DOMAIN orders
                        /\ mt5_initialized
                        /\ orders[id].broker_order_id # NoneId
                        /\ ~modified)

\* modify_order_sl_tp has just moved the SL and removed the TP of an order that has
\* a broker ticket, under a broker connection, and a closed order is in the table
C15_Witness ==
    /\ last.op = "modify_order_sl_tp" /\ last.ok
    /\ mt5_initialized
    /\ LET order == orders[last.order_id]
       IN  /\ order.broker_order_id # NoneId
           /\ order.status \in {"PENDING", "FILLED"}
           /\ order.sl_price = 100 /\ order.initial_sl_price # 100
           /\ order.tp_price = 0 /\ order.initial_tp_price # 0
    /\ \E b \in DOMAIN orders : Terminal(orders[b])

(* ------------------------------ C16 ------------------------------------ *)
\* widen_sltp_factor as <<numerator, denominator>>: none (0), 4/5, 1, 6/5
FactorProbes == { <<0, 1>>, <<4, 5>>, <<1, 1>>, <<WIDEN_NUM, WIDEN_DEN>> }

\* C16: in every reachable state get_order_details_for_regeneration returns a
\* specification only for a STOPPED_OUT order; the specification has the symbol,
\* kind, entry price, grid id and slot id of that order; with a factor f > 1 its SL
\* lies f * |entry - initial SL| from the entry on the loss side (below the entry of
\* a long, above the entry of a short), a non-zero initial TP gives a TP
\* f * |initial TP - entry| from the entry on the profit side and a zero TP stays
\* zero; with no factor or f <= 1 SL and TP are the initial SL and TP.
C16_RegenerationDetails ==
    \A id \in 0..(Cardinality(DOMAIN orders) + 1), f \in FactorProbes :
        LET d == get_order_details_for_regeneration(OM, id, f[1], f[2], 1)
        IN  ~d.none =>
              /\ id \in DOMAIN orders
              /\ orders[id].status = "STOPPED_OUT"
              /\ LET order == orders[id]
                     e == order.entry_price
                     side == IF IsLong(order) THEN 1 ELSE 0 - 1
                 IN  /\ d.symbol = order.symbol
                     /\ d.order_type_str = order.order_type
                     /\ d.entry_price = e
                     /\ d.grid_id = order.grid_id
                     /\ d.original_order_id_for_regen = order.original_order_id
                     /\ IF f[1] > f[2]
                        THEN /\ f[2] * side * (e - d.sl_price)
                                  = f[1] * Abs(e - order.initial_sl_price)
                             /\ IF order.initial_tp_price = 0 THEN d.tp_price = 0
                                ELSE f[2] * side * (d.tp_price - e)
                                       = f[1] * Abs(order.initial_tp_price - e)
                        ELSE /\ d.sl_price = order.initial_sl_price
                             /\ d.tp_price = order.initial_tp_price

(* ------------------------------ C17 ------------------------------------ *)
\* the order was placed as a regeneration of its slot
IsRegenerated(order) == order.regeneration_attempts > 0

\* C17: in every reachable state every order that is not a regeneration - the
\* orders placed by create_new_grid included - has original_order_id equal to its own
\* order_id, and every regenerated order has the original_order_id of an earlier
\* order that is not a regeneration (the first order of its chain), so that the
\* orders of one chain, and only they, share one slot id.
C17_SlotIdentity ==
    \A id \in DOMAIN orders :
        LET slot == orders[id].original_order_id
        IN  IF ~IsRegenerated(orders[id])
            THEN slot = id
            ELSE /\ slot \in DOMAIN orders
                 /\ slot < id
                 /\ ~IsRegenerated(orders[slot])

(* ------------------------------ C18 ------------------------------------ *)
\* C18: in every reachable state the k-th order regenerated for a slot has
\* regeneration_attempts = k, and regeneration_counts of a slot equals the number
\* of regenerated orders registered for the slot - also after a placement of a
\* regenerated order that the broker turned down.
C18_CounterMatchesOrders ==
    /\ \A slot \in DOMAIN regeneration_counts :
          regeneration_counts[slot] = Cardinality(RegeneratedOrders(slot))
    /\ \A id \in DOMAIN orders :
          IsRegenerated(orders[id]) =>
            orders[id].regeneration_attempts =
              Cardinality({ b \in RegeneratedOrders(orders[id].original_order_id) : b <= id })

(* ------------------------------ C19 ------------------------------------ *)
\* the ids that a call added to the order table
PlacedBy(g) == DOMAIN g.om.orders \ DOMAIN orders

\* C19: in every reachable state, whatever the strategy returns and whatever the
\* RiskManager and the broker answer, create_new_grid returns a grid id if and only
\* if it placed at least one order; when it returns None active_grids is as it was;
\* when it returns a grid id the ActiveGrid registered under it lists exactly the
\* orders placed; and every registered ActiveGrid has at least one member, each a
\* registered order.
C19_GridIffPlaced ==
    /\ \A gid \in DOMAIN active_grids :
          /\ Len(active_grids[gid].order_ids) >= 1
          /\ Elements(active_grids[gid].order_ids) \subseteq DOMAIN orders
    /\ \A model_name \in ModelNames, specs \in StrategyOutputs, risk \in RiskAnswers,
          tr \in TradeResults :
          LET r == create_new_grid(GM, model_name, "EURUSD", specs, now, risk,
                                   mt5_initialized, tr)
          IN  /\ r.grid_id # NoGrid <=> PlacedBy(r.g) # {}
              /\ r.grid_id = NoGrid => r.g.grids = active_grids
              /\ r.grid_id # NoGrid =>
                    /\ r.grid_id \in DOMAIN r.g.grids
                    /\ Elements(r.g.grids[r.grid_id].order_ids) = PlacedBy(r.g)
                    /\ \A id \in PlacedBy(r.g) : r.g.om.orders[id].grid_id = r.grid_id

\* create_new_grid has just registered a grid of two orders, and in the state
\* reached a further call would place nothing and return None
C19_Witness ==
    /\ last.op = "create_new_grid" /\ last.ok
    /\ \E gid \in DOMAIN active_grids :
         /\ Len(active_grids[gid].order_ids) = 2
         /\ \A i \in 1..2 : orders[active_grids[gid].order_ids[i]].grid_id = gid
    /\ \E specs \in StrategyOutputs \ {<<>>}, risk \in RiskAnswers, tr \in TradeResults :
         create_new_grid(GM, "VolatilityGridModel", "EURUSD", specs, now, risk,
                         mt5_initialized, tr).grid_id = NoGrid

(* ------------------------------ C20 ------------------------------------ *)
\* the lot size create_new_grid resolves for a specification
ResolvedLot(spec, risk) == IF spec.lot_size = 0 THEN risk.lot ELSE spec.lot_size

Unknown == "None"
\* str.lower() on the directions the callers pass
Lower(s) ==
    CASE s = "BUY" -> "buy"
      [] s = "SELL" -> "sell"
      [] OTHER -> s

(* --------------------------- SignalRouter ------------------------------ *)
ATR_MEDIAN_PERIODS == 50
ATR_HIGH_VOL_FACTOR_NUM == 3
ATR_HIGH_VOL_FACTOR_DEN == 2
ATR_LOW_VOL_FACTOR_NUM == 7
ATR_LOW_VOL_FACTOR_DEN == 10
ADX_TREND_THRESHOLD == 25
BB_RANGE_WIDTH_THRESHOLD_NUM == 3
BB_RANGE_WIDTH_THRESHOLD_DEN == 100
SWING_PROXIMITY_ATR_MULTIPLIER_NUM == 1
SWING_PROXIMITY_ATR_MULTIPLIER_DEN == 2
EMA_DIFF_THRESHOLD_DEN == 1000
\* adx of evaluate_trend when the trend columns are missing
NoAdx == -1

\* historical_data as the router reads it: which indicator columns its latest row
\* has (cols), its length (len), the rolling median of the ATR column (median_atr,
\* 0 also for NaN), the latest EMA, ADX, DI and Bollinger values, and the nearest
\* marked swing high above / swing low below the base price in the last 50 rows
\* (NoPrice: none)
evaluate_volatility(h, current_atr) ==
    IF "ATR" \notin h.cols THEN Unknown
    ELSE IF h.len < ATR_MEDIAN_PERIODS
    THEN IF current_atr > 0 THEN "NORMAL" ELSE Unknown
    ELSE IF h.median_atr = 0 THEN "NORMAL"
    ELSE IF current_atr * ATR_HIGH_VOL_FACTOR_DEN > h.median_atr * ATR_HIGH_VOL_FACTOR_NUM THEN "HIGH"
    ELSE IF current_atr * ATR_LOW_VOL_FACTOR_DEN < h.median_atr * ATR_LOW_VOL_FACTOR_NUM THEN "LOW"
    ELSE "NORMAL"

evaluate_trend(h) ==
    IF "TREND" \notin h.cols THEN [dir |-> Unknown, adx |-> NoAdx]
    ELSE
    LET strong ==
            IF h.adx > ADX_TREND_THRESHOLD
            THEN IF h.ema_short > h.ema_long /\ h.plus_di > h.minus_di THEN "UP"
                 ELSE IF h.ema_short < h.ema_long /\ h.minus_di > h.plus_di THEN "DOWN"
                 ELSE "NONE"
            ELSE "NONE"
        weak ==
            IF h.ema_short > h.ema_long
               /\ (h.ema_short - h.ema_long) * EMA_DIFF_THRESHOLD_DEN > h.ema_long
            THEN "WEAK_UP"
            ELSE IF h.ema_short < h.ema_long
                    /\ (h.ema_long - h.ema_short) * EMA_DIFF_THRESHOLD_DEN > h.ema_short
            THEN "WEAK_DOWN"
            ELSE "NONE"
    IN  [dir |-> IF strong # "NONE" THEN strong ELSE weak, adx |-> h.adx]

evaluate_range(h) ==
    IF "BB" \notin h.cols THEN Unknown
    ELSE IF h.bb_mid = 0 THEN Unknown
    ELSE IF (h.bb_upper - h.bb_lower) * BB_RANGE_WIDTH_THRESHOLD_DEN
               < h.bb_mid * BB_RANGE_WIDTH_THRESHOLD_NUM
    THEN "True" ELSE "False"

evaluate_price_structure(h, base_price, current_atr) ==
    IF "SWING" \notin h.cols THEN [near_sh |-> NoPrice, near_sl |-> NoPrice]
    ELSE
    LET near(level) ==
            level # NoPrice
            /\ Abs(level - base_price) * SWING_PROXIMITY_ATR_MULTIPLIER_DEN
                 < current_atr * SWING_PROXIMITY_ATR_MULTIPLIER_NUM
    IN  [ near_sh |-> IF near(h.swing_high) THEN h.swing_high ELSE NoPrice,
          near_sl |-> IF near(h.swing_low) THEN h.swing_low ELSE NoPrice ]

\* the decision list with the structure rule ahead of the range rule
GridModelFor_structure_first(volatility, trend_dir, adx, is_ranging, near_sh, near_sl, direction) ==
    IF near_sh # NoPrice /\ Lower(direction) = "sell" THEN "StructureGridModel"
    ELSE IF near_sl # NoPrice /\ Lower(direction) = "buy" THEN "StructureGridModel"
    ELSE IF is_ranging = "True" THEN "RangeGridModel"
    ELSE IF trend_dir \in {"UP", "DOWN"} /\ adx # NoAdx /\ adx > ADX_TREND_THRESHOLD + 5
    THEN IF volatility = "HIGH" THEN "VolatilityGridModel" ELSE "PyramidGridModel"
    ELSE IF trend_dir \in {"WEAK_UP", "WEAK_DOWN"} /\ volatility # "HIGH"
            /\ (\/ trend_dir = "WEAK_UP" /\ Lower(direction) = "buy"
                \/ trend_dir = "WEAK_DOWN" /\ Lower(direction) = "sell")
    THEN "StaticGridModel"
    ELSE IF volatility = "HIGH" THEN "VolatilityGridModel"
    ELSE IF volatility = "LOW" /\ is_ranging # "True" THEN "DualGridModel"
    ELSE IF Lower(direction) \in {"buy", "sell"} THEN "StaticGridModel"
    ELSE "VolatilityGridModel"

\* the decision list of select_grid_model over the signals it has evaluated
GridModelFor(volatility, trend_dir, adx, is_ranging, near_sh, near_sl, direction) ==
    IF is_ranging = "True" THEN "RangeGridModel"
    ELSE IF near_sh # NoPrice /\ near_sh # 0 /\ Lower(direction) = "sell" THEN "StructureGridModel"
    ELSE IF near_sl # NoPrice /\ near_sl # 0 /\ Lower(direction) = "buy" THEN "StructureGridModel"
    ELSE IF trend_dir \in {"UP", "DOWN"} /\ adx # NoAdx /\ adx > ADX_TREND_THRESHOLD + 5
    THEN IF volatility = "HIGH" THEN "VolatilityGridModel" ELSE "PyramidGridModel"
    ELSE IF trend_dir \in {"WEAK_UP", "WEAK_DOWN"} /\ volatility # "HIGH"
            /\ (\/ trend_dir = "WEAK_UP" /\ Lower(direction) = "buy"
                \/ trend_dir = "WEAK_DOWN" /\ Lower(direction) = "sell")
    THEN "StaticGridModel"
    ELSE IF volatility = "HIGH" THEN "VolatilityGridModel"
    ELSE IF volatility = "LOW" /\ is_ranging # "True" THEN "DualGridModel"
    ELSE IF Lower(direction) \in {"buy", "sell"} THEN "StaticGridModel"
    ELSE "VolatilityGridModel"

\* the signals select_grid_model evaluates from the base trade and the history
Signals(base_trade_params, h) ==
    LET base_price == Get(base_trade_params, "base_price", 0)
        current_atr == Get(base_trade_params, "atr", 0)
        trend == evaluate_trend(h)
        structure == evaluate_price_structure(h, base_price, current_atr)
    IN  [ volatility |-> evaluate_volatility(h, current_atr),
          trend_dir |-> trend.dir, adx |-> trend.adx,
          is_ranging |-> evaluate_range(h),
          near_sh |-> structure.near_sh, near_sl |-> structure.near_sl,
          direction |-> Get(base_trade_params, "direction", "") ]

select_grid_model(base_trade_params, h) ==
    LET s == Signals(base_trade_params, h)
    IN  GridModelFor(s.volatility, s.trend_dir, s.adx, s.is_ranging,
                     s.near_sh, s.near_sl, s.direction)

\* the registry without the Range strategy
model_mapping_without_range ==
    { "VolatilityGridModel", "DualGridModel", "StaticGridModel", "PyramidGridModel",
      "StructureGridModel" }
\* GridManager.model_mapping: the names a strategy class is registered under
model_mapping ==
    { "VolatilityGridModel", "DualGridModel", "StaticGridModel", "PyramidGridModel",
      "StructureGridModel", "RangeGridModel" }

(* ------------------------- router inputs ------------------------------- *)
BaseTrade(symbol, direction, base_price, base_sl, base_tp, atr) ==
    [ symbol |-> symbol, direction |-> direction, base_price |-> base_price,
      base_sl |-> base_sl, base_tp |-> base_tp, atr |-> atr ]

\* base trades at price 100 in every direction the router distinguishes, one
\* without a direction, with an ATR of nothing, a little and a lot
RouterTrades ==
    LET withdir == { BaseTrade("EURUSD", d, 100, 90, 120, a) :
                       d \in {"buy", "SELL", "hold"}, a \in {0, 5, 10, 20} }
    IN  withdir \cup { Del(BaseTrade("EURUSD", "buy", 100, 90, 120, a), "direction") :
                         a \in {5, 20} }

History(cols, len, median_atr, trend, bb, swing) ==
    [ cols |-> cols, len |-> len, median_atr |-> median_atr,
      ema_short |-> trend[1], ema_long |-> trend[2], adx |-> trend[3],
      plus_di |-> trend[4], minus_di |-> trend[5],
      bb_upper |-> bb[1], bb_lower |-> bb[2], bb_mid |-> bb[3],
      swing_high |-> swing[1], swing_low |-> swing[2] ]

\* <<ema_short, ema_long, adx, +DI, -DI>>: the averages apart by more or less
\* than a thousandth, the ADX below the threshold, between it and five above,
\* and beyond
TrendRows ==
    { <<e[1], e[2], adx, d[1], d[2]>> :
        e \in { <<10020, 10000>>, <<10000, 10020>>, <<10005, 10000>> },
        adx \in {20, 30, 31}, d \in { <<30, 10>>, <<10, 30>> } }
\* <<upper, lower, middle>>: a narrow band, a wide band, no middle
BandRows == { <<101, 99, 100>>, <<110, 90, 100>>, <<1, 0, 0>> }
\* <<swing high above, swing low below>>
SwingRows == { <<sh, sl>> : sh \in {NoPrice, 102, 104}, sl \in {NoPrice, 98, 96} }
\* the histories: each group of columns present or missing, a short and a long
\* history, a median ATR of 0 and of 10
Histories ==
    { History(cols, len_median[1], len_median[2], trend, bb, swing) :
        cols \in { {}, {"ATR", "TREND", "BB", "SWING"}, {"ATR", "TREND", "SWING"},
                   {"TREND", "BB"}, {"ATR", "SWING"} },
        len_median \in { <<10, 0>>, <<60, 0>>, <<60, 10>> },
        trend \in TrendRows, bb \in BandRows, swing \in SwingRows }

\* the state after construction with a call about to be made
InitWith(call) ==
    /\ orders = <<>>
    /\ pending_orders = <<>>
    /\ active_positions = <<>>
    /\ regeneration_counts = <<>>
    /\ slot_cooldown_tracker = <<>>
    /\ active_grids = <<>>
    /\ mt5_initialized = FALSE
    /\ now = StartTime
    /\ last = call
    /\ regen_attempt_time = <<>>

\* a call that changes nothing of the engine and returns result
Returns(op, result) ==
    /\ last' = [last EXCEPT !.op = op, !.result = result]
    /\ UNCHANGED <<orders, pending_orders, active_positions, regeneration_counts,
                   slot_cooldown_tracker, active_grids, mt5_initialized, now,
                   regen_attempt_time>>

RouterInit ==
    \E p \in RouterTrades, h \in Histories :
        InitWith([Call("router") EXCEPT !.args = [base_trade_params |-> p, historical_data |-> h]])

SelectGridModel ==
    /\ last.op = "router"
    /\ Returns("select_grid_model",
               select_grid_model(last.args.base_trade_params, last.args.historical_data))

NextRouter == SelectGridModel

RouterSpec == RouterInit /\ [][NextRouter]_vars

(* ---------------------------- RiskManager ------------------------------ *)
(* Lot sizes are counted in hundredths of a lot, amounts in whole USD.  The  *)
(* symbols configured below have point_value 1, so a price is its number of *)
(* points; quotients are exact where the code divides floats.               *)
DEFAULT_RISK_PER_TRADE_USD == 10
MAX_ACCOUNT_RISK_PERCENTAGE == 2
\* None for an amount that is not passed
NoAmount == -1

\* required_keys of get_symbol_config
RequiredKeys ==
    { "pip_value_per_lot", "min_lot_size", "lot_step", "decimals", "point_value",
      "contract_size" }
SymbolConfig(pip_value_per_lot, min_lot_size, lot_step, contract_size) ==
    [ pip_value_per_lot |-> pip_value_per_lot, min_lot_size |-> min_lot_size,
      lot_step |-> lot_step, decimals |-> 0, point_value |-> 1,
      contract_size |-> contract_size ]
\* SYMBOL_SETTINGS merged with the broker's symbol properties: a major pair with
\* steps of 0.01 lot, a pair with USD as base currency and steps of 0.1 lot, a
\* JPY pair, a CFD traded in quarter lots, a cross without a lot step, and a pair whose
\* entry lacks decimals and point_value
SymbolSettings ==
    [ s \in {"EURUSD", "USDCHF", "USDJPY", "OILUSD", "EURGBP", "GBPUSD"} |->
        CASE s = "EURUSD" -> SymbolConfig(10, 1, 1, 100)
          [] s = "USDCHF" -> SymbolConfig(10, 10, 10, 10000)
          [] s = "USDJPY" -> SymbolConfig(1, 1, 1, 10000)
          [] s = "OILUSD" -> SymbolConfig(1, 25, 25, 100)
          [] s = "EURGBP" -> SymbolConfig(10, 1, 0, 10000)
          [] OTHER -> [ pip_value_per_lot |-> 10, min_lot_size |-> 1, lot_step |-> 1,
                        contract_size |-> 100 ] ]

\* substring tests on symbol.upper()
HasJPY(symbol) == symbol \in {"USDJPY"}
IsCfdOrMetal(symbol) == symbol \in {"XAUUSD", "XAGUSD", "OILUSD"}
StartsWithUSD(symbol) == symbol \in {"USDCHF", "USDJPY"}
EndsWithUSD(symbol) == symbol \in {"EURUSD", "GBPUSD", "NZDUSD", "XAUUSD", "XAGUSD", "OILUSD"}

\* standard_pip_unit in points, as <<numerator, denominator>>: ten points, for a
\* JPY symbol with decimals 0 a hundredth of a point, for a CFD or metal one point
PipUnit(symbol) ==
    IF HasJPY(symbol) THEN <<1, 100>>
    ELSE IF IsCfdOrMetal(symbol) THEN <<1, 1>>
    ELSE <<10, 1>>

RiskManager(account_balance, leverage_ratio) ==
    [ account_balance |-> account_balance, leverage_ratio |-> leverage_ratio,
      max_account_risk_percentage |-> MAX_ACCOUNT_RISK_PERCENTAGE,
      default_risk_per_trade_usd |-> DEFAULT_RISK_PER_TRADE_USD ]

\* get_symbol_config without a broker connection; raised stands for ValueError
get_symbol_config(symbol) ==
    IF symbol \notin DOMAIN SymbolSettings THEN [raised |-> TRUE]
    ELSE IF RequiredKeys \ DOMAIN SymbolSettings[symbol] # {} THEN [raised |-> TRUE]
    ELSE [raised |-> FALSE, config |-> SymbolSettings[symbol]]

\* position_nominal_value_usd of lot_size = n / d hundredths of a lot, times 100
NominalUsd(symbol, config, n, entry_price) ==
    IF StartsWithUSD(symbol) THEN n * config.contract_size
    ELSE IF EndsWithUSD(symbol) THEN n * config.contract_size * entry_price
    ELSE n * config.contract_size

\* required_margin > num / den * balance for a lot size of n / d hundredths
MarginAbove(rm, symbol, config, n, d, entry_price, num, den, balance) ==
    NominalUsd(symbol, config, n, entry_price) * den
        > num * balance * d * 100 * rm.leverage_ratio

\* what round(final_lot_size, final_lot_precision) rounds to, in hundredths
LotPrecisionUnit(lot_step) ==
    IF lot_step <= 0 THEN 1
    ELSE IF lot_step < 100
    THEN IF lot_step = 1 THEN 1 ELSE IF lot_step <= 10 THEN 10 ELSE 100
    ELSE IF lot_step \in {100, 1000} THEN 10 ELSE 100

\* calculate_lot_size that falls back to the minimum lot where the margin is too high
calculate_lot_size_min_at_cap(rm, symbol, entry_price, sl_price, risk_per_trade_usd, account_balance_override) ==
    LET current_balance == IF account_balance_override # NoAmount
                           THEN account_balance_override ELSE rm.account_balance
        risk_amount_usd == IF risk_per_trade_usd # NoAmount
                           THEN risk_per_trade_usd ELSE rm.default_risk_per_trade_usd
        sym == get_symbol_config(symbol)
    IN  IF entry_price = sl_price THEN [raised |-> FALSE, lot |-> 0]
        ELSE IF risk_amount_usd <= 0 THEN [raised |-> FALSE, lot |-> 0]
        ELSE IF sym.raised THEN [raised |-> TRUE, lot |-> 0]
        ELSE
        LET c == sym.config
            sl_distance_abs == Abs(entry_price - sl_price)
            num == 100 * risk_amount_usd * PipUnit(symbol)[1]
            den == sl_distance_abs * c.pip_value_per_lot * PipUnit(symbol)[2]
            stepped == IF c.lot_step > 0
                       THEN [n |-> (num \div (den * c.lot_step)) * c.lot_step, d |-> 1]
                       ELSE [n |-> num, d |-> den]
            below_min == stepped.n < c.min_lot_size * stepped.d
            final == IF below_min THEN [n |-> c.min_lot_size, d |-> 1] ELSE stepped
        IN  IF den <= 0 THEN [raised |-> FALSE, lot |-> 0]
            ELSE IF below_min /\ num < c.min_lot_size * den THEN [raised |-> FALSE, lot |-> 0]
            ELSE IF MarginAbove(rm, symbol, c, final.n, final.d, entry_price, 1, 2, current_balance)
            THEN [raised |-> FALSE, lot |-> c.min_lot_size]
            ELSE [raised |-> FALSE,
                  lot |-> RoundTo(final.n, final.d, LotPrecisionUnit(c.lot_step))]

\* calculate_lot_size; raised stands for the ValueError of get_symbol_config,
\* lot is the result in hundredths of a lot
calculate_lot_size(rm, symbol, entry_price, sl_price, risk_per_trade_usd, account_balance_override) ==
    LET current_balance == IF account_balance_override # NoAmount
                           THEN account_balance_override ELSE rm.account_balance
        risk_amount_usd == IF risk_per_trade_usd # NoAmount
                           THEN risk_per_trade_usd ELSE rm.default_risk_per_trade_usd
        sym == get_symbol_config(symbol)
    IN  IF entry_price = sl_price THEN [raised |-> FALSE, lot |-> 0]
        ELSE IF risk_amount_usd <= 0 THEN [raised |-> FALSE, lot |-> 0]
        ELSE IF sym.raised THEN [raised |-> TRUE, lot |-> 0]
        ELSE
        LET c == sym.config
            sl_distance_abs == Abs(entry_price - sl_price)
            \* raw_lot_size = num / den hundredths of a lot
            num == 100 * risk_amount_usd * PipUnit(symbol)[1]
            den == sl_distance_abs * c.pip_value_per_lot * PipUnit(symbol)[2]
            stepped == IF c.lot_step > 0
                       THEN [n |-> (num \div (den * c.lot_step)) * c.lot_step, d |-> 1]
                       ELSE [n |-> num, d |-> den]
            below_min == stepped.n < c.min_lot_size * stepped.d
            final == IF below_min THEN [n |-> c.min_lot_size, d |-> 1] ELSE stepped
        IN  IF den <= 0 THEN [raised |-> FALSE, lot |-> 0]
            ELSE IF below_min /\ num < c.min_lot_size * den THEN [raised |-> FALSE, lot |-> 0]
            ELSE IF MarginAbove(rm, symbol, c, final.n, final.d, entry_price, 1, 1, current_balance)
            THEN [raised |-> FALSE, lot |-> 0]
            ELSE IF MarginAbove(rm, symbol, c, final.n, final.d, entry_price, 1, 2, current_balance)
            THEN [raised |-> FALSE, lot |-> 0]
            ELSE [raised |-> FALSE,
                  lot |-> RoundTo(final.n, final.d, LotPrecisionUnit(c.lot_step))]

\* can_open_trade with a limit of the whole balance
can_open_trade_whole_balance(rm, symbol, lot_size, entry_price) ==
    LET sym == get_symbol_config(symbol)
    IN  IF lot_size <= 0 THEN [raised |-> FALSE, ok |-> FALSE]
        ELSE IF sym.raised THEN [raised |-> TRUE, ok |-> FALSE]
        ELSE IF MarginAbove(rm, symbol, sym.config, lot_size, 1, entry_price, 1, 1,
                            rm.account_balance)
        THEN [raised |-> FALSE, ok |-> FALSE]
        ELSE [raised |-> FALSE, ok |-> TRUE]

\* can_open_trade; lot_size in hundredths of a lot
can_open_trade(rm, symbol, lot_size, entry_price) ==
    LET sym == get_symbol_config(symbol)
    IN  IF lot_size <= 0 THEN [raised |-> FALSE, ok |-> FALSE]
        ELSE IF sym.raised THEN [raised |-> TRUE, ok |-> FALSE]
        ELSE IF MarginAbove(rm, symbol, sym.config, lot_size, 1, entry_price, 4, 5,
                            rm.account_balance)
        THEN [raised |-> FALSE, ok |-> FALSE]
        ELSE [raised |-> FALSE, ok |-> TRUE]

(* --------------------------- risk inputs ------------------------------- *)
RiskSymbols == (DOMAIN SymbolSettings) \cup {"NZDUSD"}
RiskAmounts == {NoAmount, -5, 0, 1, 3, 5, 8, 10, 30}
RiskStops == {100, 99, 90, 110}
RiskBalances == {160, 1000}
RiskLots == {0, 1, 100, 800, 801}
RiskInputs ==
    { [ rm |-> RiskManager(b, 100), symbol |-> sym, entry_price |-> 100, sl_price |-> sl,
        risk_per_trade_usd |-> r, account_balance_override |-> o, lot_size |-> lot ] :
        b \in RiskBalances, sym \in RiskSymbols, sl \in RiskStops, r \in RiskAmounts,
        o \in {NoAmount, 160}, lot \in RiskLots }

RiskInit == \E a \in RiskInputs : InitWith([Call("risk") EXCEPT !.args = a])

CalculateLotSize ==
    /\ last.op = "risk"
    /\ LET a == last.args
       IN  Returns("calculate_lot_size",
                   calculate_lot_size(a.rm, a.symbol, a.entry_price, a.sl_price,
                                      a.risk_per_trade_usd, a.account_balance_override))

CanOpenTrade ==
    /\ last.op = "risk"
    /\ LET a == last.args
       IN  Returns("can_open_trade",
                   can_open_trade(a.rm, a.symbol, a.lot_size, a.entry_price))

NextRisk == CalculateLotSize \/ CanOpenTrade

RiskSpec == RiskInit /\ [][NextRisk]_vars

(* ----------------------------------------------------------------------- *)
(* C22  select_grid_model is total and deterministic: for every base trade  *)
(*      and history (each signal known or unknown, any ADX, swing levels    *)
(*      present or absent, direction buy, sell, other or missing) the call  *)
(*      returns one of the six strategy names, that name is registered in   *)
(*      model_mapping, and evaluating the same inputs again gives the same  *)
(*      name.                                                               *)
(* ----------------------------------------------------------------------- *)
SixModels ==
    { "VolatilityGridModel", "DualGridModel", "StaticGridModel", "PyramidGridModel",
      "StructureGridModel", "RangeGridModel" }

Rule(i, s) ==
    CASE i = 1 -> s.is_ranging = "True"
      [] i = 2 -> \/ Lower(s.direction) = "sell" /\ s.near_sh # NoPrice
                  \/ Lower(s.direction) = "buy" /\ s.near_sl # NoPrice
      [] i = 3 -> s.trend_dir \in {"UP", "DOWN"} /\ s.adx > ADX_TREND_THRESHOLD + 5
      [] i = 4 -> /\ \/ s.trend_dir = "WEAK_UP" /\ Lower(s.direction) = "buy"
                     \/ s.trend_dir = "WEAK_DOWN" /\ Lower(s.direction) = "sell"
                  /\ s.volatility # "HIGH"
      [] i = 5 -> s.volatility = "HIGH"
      [] i = 6 -> s.volatility = "LOW" /\ s.is_ranging # "True"
      [] OTHER -> TRUE

RuleModel(i, s) ==
    CASE i = 1 -> "RangeGridModel"
      [] i = 2 -> "StructureGridModel"
      [] i = 3 -> IF s.volatility = "HIGH" THEN "VolatilityGridModel" ELSE "PyramidGridModel"
      [] i = 4 -> "StaticGridModel"
      [] i = 5 -> "VolatilityGridModel"
      [] i = 6 -> "DualGridModel"
      [] OTHER -> IF Lower(s.direction) \in {"buy", "sell"} THEN "StaticGridModel"
                  ELSE "VolatilityGridModel"

FirstRule(s) == CHOOSE i \in 1..7 : Rule(i, s) /\ \A j \in 1..(i - 1) : ~Rule(j, s)

C23_FirstMatchingRule ==
    last.op = "select_grid_model" =>
        LET s == Signals(last.args.base_trade_params, last.args.historical_data)
            i == FirstRule(s)
        IN  /\ last.result = RuleModel(i, s)
            /\ s.is_ranging = Unknown => i # 1
            /\ s.near_sh = NoPrice /\ s.near_sl = NoPrice => i # 2
            /\ s.trend_dir = Unknown => i \notin {3, 4}
            /\ s.volatility = Unknown => i \notin {5, 6}

\* a buy near a swing low inside a narrow band: the range rule has won over the
\* structure rule
C23_Witness ==
    /\ last.op = "select_grid_model"
    /\ LET s == Signals(last.args.base_trade_params, last.args.historical_data)
       IN  Rule(1, s) /\ Rule(2, s) /\ last.result = "RangeGridModel"

(* ----------------------------------------------------------------------- *)
(* C24  calculate_lot_size is monotonic in the risk amount: with everything *)
(*      else equal, r1 <= r2 gives result(r1) <= result(r2), unless         *)
(*      result(r2) is 0 because the margin of its lot size exceeds 50% of   *)
(*      the balance; and once that cap has forced 0, every larger risk      *)
(*      amount yields 0 as well.                                            *)
(* ----------------------------------------------------------------------- *)
EffectiveRisk(a) ==
    IF a.risk_per_trade_usd # NoAmount THEN a.risk_per_trade_usd
    ELSE a.rm.default_risk_per_trade_usd
EffectiveBalance(a) ==
    IF a.account_balance_override # NoAmount THEN a.account_balance_override
    ELSE a.rm.account_balance
LotFor(a, r) ==
    calculate_lot_size(a.rm, a.symbol, a.entry_price, a.sl_price, r,
                       a.account_balance_override)
\* the lot size that risk r buys before the margin is looked at, as <<n, d>>
\* hundredths: raw lots floored to the lot step, the minimum lot if that is less
SizedLot(a, r) ==
    LET c == SymbolSettings[a.symbol]
        num == 100 * r * PipUnit(a.symbol)[1]
        den == Abs(a.entry_price - a.sl_price) * c.pip_value_per_lot * PipUnit(a.symbol)[2]
        floored == IF c.lot_step > 0 THEN <<(num \div (den * c.lot_step)) * c.lot_step, 1>>
                   ELSE <<num, den>>
    IN  IF floored[1] < c.min_lot_size * floored[2] THEN <<c.min_lot_size, 1>> ELSE floored
RawBelowMin(a, r) ==
    LET c == SymbolSettings[a.symbol]
    IN  100 * r * PipUnit(a.symbol)[1]
            < c.min_lot_size * Abs(a.entry_price - a.sl_price) * c.pip_value_per_lot
                * PipUnit(a.symbol)[2]
\* margin of n / d hundredths of a lot above half of the balance
OverHalf(a, n, d) ==
    LET c == SymbolSettings[a.symbol]
        nominal == IF StartsWithUSD(a.symbol) THEN n * c.contract_size
                   ELSE IF EndsWithUSD(a.symbol) THEN n * c.contract_size * a.entry_price
                   ELSE n * c.contract_size
    IN  nominal * 2 > EffectiveBalance(a) * d * 100 * a.rm.leverage_ratio
Configured(symbol) ==
    symbol \in DOMAIN SymbolSettings /\ RequiredKeys \subseteq DOMAIN SymbolSettings[symbol]
\* risk r is answered with 0 because of the margin cap
CapForcesZero(a, r) ==
    /\ r > 0 /\ a.entry_price # a.sl_price /\ ~RawBelowMin(a, r)
    /\ OverHalf(a, SizedLot(a, r)[1], SizedLot(a, r)[2])
    /\ LotFor(a, r).lot = 0

C24_MonotonicInRisk ==
    last.op = "calculate_lot_size" /\ Configured(last.args.symbol) =>
        LET a == last.args
            r1 == EffectiveRisk(a)
        IN  \A r2 \in RiskAmounts \ {NoAmount} :
                r1 <= r2 =>
                    /\ ~LotFor(a, r2).raised
                    /\ \/ last.result.lot <= LotFor(a, r2).lot
                       \/ CapForcesZero(a, r2)
                    /\ CapForcesZero(a, r1) => LotFor(a, r2).lot = 0

\* a risk amount that bought a lot size while a larger one is refused for its margin
C24_Witness ==
    /\ last.op = "calculate_lot_size"
    /\ Configured(last.args.symbol)
    /\ last.result.lot > 0
    /\ \E r2 \in RiskAmounts \ {NoAmount} :
           /\ EffectiveRisk(last.args) < r2
           /\ CapForcesZero(last.args, r2)

(* ----------------------------------------------------------------------- *)
(* C25  For a configured symbol calculate_lot_size does not raise; it       *)
(*      returns 0 when entry = SL, when the risk amount is <= 0, when the   *)
(*      raw lot size is below the minimum lot, or when the margin exceeds   *)
(*      50% of the balance; every non-zero result is at least the minimum   *)
(*      lot and its margin is at most 50% of the balance; and a risk amount *)
(*      above the account's max-risk percentage does not by itself make the *)
(*      result 0.                                                           *)
(* ----------------------------------------------------------------------- *)
MustBeZero(a) ==
    \/ a.entry_price = a.sl_price
    \/ EffectiveRisk(a) <= 0
    \/ RawBelowMin(a, EffectiveRisk(a))
    \/ OverHalf(a, SizedLot(a, EffectiveRisk(a))[1], SizedLot(a, EffectiveRisk(a))[2])
AboveMaxRisk(a) ==
    EffectiveRisk(a) * 100 > a.rm.max_account_risk_percentage * EffectiveBalance(a)

C25_LotSizeEdges ==
    last.op = "calculate_lot_size" /\ Configured(last.args.symbol) =>
        LET a == last.args
            lot == last.result.lot
        IN  /\ ~last.result.raised
            /\ MustBeZero(a) => lot = 0
            /\ lot > 0 => /\ lot >= SymbolSettings[a.symbol].min_lot_size
                          /\ ~OverHalf(a, lot, 1)
            /\ AboveMaxRisk(a) =>
                   last.result = calculate_lot_size(
                                     [a.rm EXCEPT !.max_account_risk_percentage = 100],
                                     a.symbol, a.entry_price, a.sl_price,
                                     a.risk_per_trade_usd, a.account_balance_override)

(* ----------------------------------------------------------------------- *)
(* C27  can_open_trade returns false when the lot size is <= 0 or when the  *)
(*      required margin (lots times contract size, times the entry price    *)
(*      for a symbol quoted in USD, divided by the leverage) is strictly    *)
(*      greater than 80% of the balance, and true otherwise; the call       *)
(*      changes nothing.  The margin test is stated for symbols that have   *)
(*      a configuration.                                                    *)
(* ----------------------------------------------------------------------- *)
\* required margin of n hundredths of a lot above four fifths of the balance
OverFourFifths(a, n) ==
    LET c == SymbolSettings[a.symbol]
        nominal == IF StartsWithUSD(a.symbol) THEN n * c.contract_size
                   ELSE IF EndsWithUSD(a.symbol) THEN n * c.contract_size * a.entry_price
                   ELSE n * c.contract_size
    IN  nominal * 5 > 4 * a.rm.account_balance * 100 * a.rm.leverage_ratio

C27_CanOpenTrade ==
    [][ last'.op = "can_open_trade" =>
          LET a == last.args
          IN  /\ a.lot_size <= 0 => last'.result = [raised |-> FALSE, ok |-> FALSE]
              /\ a.lot_size > 0 /\ Configured(a.symbol) =>
                    /\ ~last'.result.raised
                    /\ last'.result.ok = ~OverFourFifths(a, a.lot_size)
              /\ last'.args = a
              /\ UNCHANGED <<orders, pending_orders, active_positions, regeneration_counts,
                             slot_cooldown_tracker, active_grids, mt5_initialized, now,
                             regen_attempt_time>> ]_vars

\* 8 lots of EURUSD at 100 need a margin of exactly 80% of a balance of 1000 and
\* are allowed
C27_Witness ==
    /\ last.op = "can_open_trade"
    /\ last.args.symbol = "EURUSD" /\ last.args.lot_size = 800
    /\ last.args.rm.account_balance = 1000
    /\ last.result.ok


(* ---------------------------- strategies ------------------------------- *)
\* Prices are whole points; the multipliers of the strategies are hundredths
\* (1.0 is 100), so that entry + ATR * multiplier is (100 * entry + ATR * m) / 100.

\* the risk manager a strategy is given: none, the engine's RiskManager, or the
\* MockRiskManager of the strategy modules, whose calculate_lot_size takes the
\* keyword account_balance
RiskManagerKinds == { Unknown, "RiskManager", "MockRiskManager" }

\* points of the default decimals = 4 in one point of a symbol without settings,
\* whose prices have two decimals
DefaultPointsPerPoint == 100

\* MockRiskManager.calculate_lot_size, in hundredths of a lot; a symbol without
\* settings is sized with the defaults of symbol_details.get
MockRiskManager_calculate_lot_size(symbol, entry_price, sl_price, risk_per_trade_usd) ==
    LET price_diff == Abs(entry_price - sl_price)
        symbol_details == IF symbol \in DOMAIN SymbolSettings THEN SymbolSettings[symbol] ELSE <<>>
        sl_pips == IF "decimals" \in DOMAIN symbol_details THEN price_diff
                   ELSE price_diff * DefaultPointsPerPoint
        pip_value_per_lot == Get(symbol_details, "pip_value_per_lot", 10)
        min_lot == Get(symbol_details, "min_lot_size", 1)
        lot_step == Get(symbol_details, "lot_step", 1)
        lots == IF lot_step > 0
                THEN RoundDiv(100 * risk_per_trade_usd, sl_pips * pip_value_per_lot * lot_step) * lot_step
                ELSE RoundDiv(100 * risk_per_trade_usd, sl_pips * pip_value_per_lot)
    IN  IF price_diff = 0 THEN 0 ELSE Max(min_lot, lots)

\* what self.risk_manager.calculate_lot_size(symbol=, entry_price=, sl_price=,
\* risk_per_trade_usd=, account_balance=) does: the engine's RiskManager has no
\* parameter account_balance and raises a TypeError before it looks at anything
RiskManagerCall(risk_manager, symbol, entry_price, sl_price, risk_per_trade_usd) ==
    IF risk_manager = "RiskManager" THEN [raised |-> TRUE, lot |-> 0]
    ELSE [ raised |-> FALSE,
           lot |-> MockRiskManager_calculate_lot_size(symbol, entry_price, sl_price,
                                                      risk_per_trade_usd) ]

\* BaseGridModel._calculate_lot_size: every exception of the risk manager is
\* logged and answered with 0.0
_calculate_lot_size(self, entry_price, sl_price) ==
    IF self.risk_manager = Unknown THEN 0
    ELSE LET r == RiskManagerCall(self.risk_manager, self.symbol, entry_price, sl_price,
                                  DEFAULT_RISK_PER_TRADE_USD)
         IN  IF r.raised THEN 0 ELSE r.lot

\* _get_decimals as the step prices are rounded to.  A symbol with settings is
\* priced in points of its 'decimals'; without them the decimals are those that
\* str(base_price) shows, one fewer than the prices have when the base price is a
\* whole number of CoarseUnit points
_get_decimals(self) ==
    IF self.symbol \in DOMAIN SymbolSettings /\ "decimals" \in DOMAIN SymbolSettings[self.symbol]
    THEN 1
    ELSE IF self.base_price % CoarseUnit = 0 THEN CoarseUnit ELSE 1

\* BaseGridModel.__init__: the instance, or raised for its ValueError
BaseGridModel(base_trade_params, historical_data, risk_manager) ==
    LET self == [ symbol |-> Get(base_trade_params, "symbol", Unknown),
                  direction |-> Get(base_trade_params, "direction", Unknown),
                  base_price |-> Get(base_trade_params, "base_price", 0),
                  base_sl |-> Get(base_trade_params, "base_sl", 0),
                  base_tp |-> Get(base_trade_params, "base_tp", 0),
                  current_atr |-> Get(base_trade_params, "atr", 0),
                  historical_data |-> historical_data,
                  risk_manager |-> risk_manager,
                  grid_orders |-> <<>> ]
    IN  IF \/ self.symbol \in {Unknown, ""}
           \/ self.direction \in {Unknown, ""}
           \/ self.base_price = 0
           \/ self.base_sl = 0
           \/ self.current_atr = 0
        THEN [raised |-> TRUE]
        ELSE IF Lower(self.direction) \notin {"buy", "sell"} THEN [raised |-> TRUE]
        ELSE [raised |-> FALSE, self |-> self]

\* a subclass constructor after super().__init__
Subclass(base, name, fields) ==
    IF base.raised THEN base
    ELSE [raised |-> FALSE, self |-> [name |-> name] @@ fields @@ base.self]

\* self.grid_orders.clear() that clears nothing
Clear_nothing(grid_orders) == grid_orders
\* self.grid_orders.clear()
Clear(grid_orders) == <<>>

\* what generate_grid_orders returns and what it leaves in self.grid_orders
Generated(returned, grid_orders) == [returned |-> returned, grid_orders |-> grid_orders]

RECURSIVE Flatten(_)
Flatten(lists) == IF lists = <<>> THEN <<>> ELSE Head(lists) \o Flatten(Tail(lists))

\* the closing loop of the strategies that drops an order whose (order_type,
\* entry_price) was seen before
RECURSIVE unique_orders(_, _)
unique_orders(grid_orders, seen_entries) ==
    IF grid_orders = <<>> THEN <<>>
    ELSE LET order == Head(grid_orders)
             order_key == <<order.order_type, order.entry_price>>
         IN  IF order_key \in seen_entries
             THEN unique_orders(Tail(grid_orders), seen_entries)
             ELSE <<order>> \o unique_orders(Tail(grid_orders), seen_entries \cup {order_key})

\* the tail of a generate_grid_orders that removes duplicates
ReturnUnique(grid_orders) ==
    LET u == unique_orders(grid_orders, {}) IN Generated(u, u)

(* VolatilityGridModel *)
VolatilityGridModel(base_trade_params, historical_data, risk_manager, num_levels, atr_multiplier) ==
    Subclass(BaseGridModel(base_trade_params, historical_data, risk_manager),
             "VolatilityGridModel",
             [ num_levels |-> Max(1, num_levels), atr_multiplier |-> Max(10, atr_multiplier) ])

\* one pass of the loop of VolatilityGridModel.generate_grid_orders
VolatilityLevel(self, i) ==
    LET unit == _get_decimals(self)
        spacing == self.current_atr * self.atr_multiplier
        entry_above == RoundTo(100 * self.base_price + i * spacing, 100, unit)
        sl_above == RoundTo(100 * entry_above - spacing, 100, unit)
        tp_above == RoundTo(100 * entry_above + spacing, 100, unit)
        entry_below == RoundTo(100 * self.base_price - i * spacing, 100, unit)
        sl_below == RoundTo(100 * entry_below + spacing, 100, unit)
        tp_below == RoundTo(100 * entry_below - spacing, 100, unit)
        lot_size_above == _calculate_lot_size(self, entry_above, sl_above)
        lot_size_below == _calculate_lot_size(self, entry_below, sl_below)
    IN  (IF lot_size_above > 0
         THEN << GridSpecOf(self.symbol, "BUY_STOP", entry_above, sl_above, tp_above,
                            lot_size_above, i) >>
         ELSE <<>>)
        \o
        (IF lot_size_below > 0
         THEN << GridSpecOf(self.symbol, "SELL_STOP", entry_below, sl_below, tp_below,
                            lot_size_below, i) >>
         ELSE <<>>)

VolatilityGridModel_generate_grid_orders(self) ==
    LET grid_orders == Clear(self.grid_orders)
    IN  IF self.current_atr <= 0 THEN Generated(<<>>, grid_orders)
        ELSE IF self.current_atr * self.atr_multiplier <= 0 THEN Generated(<<>>, grid_orders)
        ELSE ReturnUnique(grid_orders
                          \o Flatten([i \in 1..self.num_levels |-> VolatilityLevel(self, i)]))

(* StaticGridModel *)
StaticGridModel(base_trade_params, historical_data, risk_manager, num_grid_lines, use_base_tp_for_all, individual_tp_rr_ratio) ==
    LET m == Subclass(BaseGridModel(base_trade_params, historical_data, risk_manager),
                      "StaticGridModel",
                      [ num_grid_lines |-> Max(1, num_grid_lines),
                        use_base_tp_for_all |-> use_base_tp_for_all,
                        individual_tp_rr_ratio |-> Max(10, individual_tp_rr_ratio) ])
    IN  IF m.raised THEN m
        ELSE IF \/ Lower(m.self.direction) = "buy" /\ m.self.base_price <= m.self.base_sl
                \/ Lower(m.self.direction) = "sell" /\ m.self.base_price >= m.self.base_sl
        THEN [raised |-> TRUE]
        ELSE m

\* a pass of the loop that divides the range by num_grid_lines
StaticLevel_spacing_by_lines(self, i) ==
    LET unit == _get_decimals(self)
        lines == self.num_grid_lines
        total_range == Abs(self.base_price - self.base_sl)
        buy == Lower(self.direction) = "buy"
        entry_price == IF buy
                       THEN RoundTo(lines * self.base_price - i * total_range, lines, unit)
                       ELSE RoundTo(lines * self.base_price + i * total_range, lines, unit)
        order_sl == self.base_sl
        sl_distance == Abs(entry_price - order_sl)
        order_tp == IF self.use_base_tp_for_all THEN self.base_tp
                    ELSE IF buy
                    THEN RoundTo(100 * entry_price + sl_distance * self.individual_tp_rr_ratio, 100, unit)
                    ELSE RoundTo(100 * entry_price - sl_distance * self.individual_tp_rr_ratio, 100, unit)
        lot_size == _calculate_lot_size(self, entry_price, order_sl)
    IN  IF buy /\ (entry_price <= self.base_sl \/ entry_price >= self.base_price
                   \/ order_tp <= entry_price)
        THEN <<>>
        ELSE IF ~buy /\ (entry_price >= self.base_sl \/ entry_price <= self.base_price
                         \/ order_tp >= entry_price)
        THEN <<>>
        ELSE IF lot_size > 0
        THEN << GridSpecOf(self.symbol, IF buy THEN "BUY_LIMIT" ELSE "SELL_LIMIT",
                           entry_price, order_sl, order_tp, lot_size, i) >>
        ELSE <<>>

\* one pass of the loop of StaticGridModel.generate_grid_orders
StaticLevel(self, i) ==
    LET unit == _get_decimals(self)
        lines == self.num_grid_lines + 1
        total_range == Abs(self.base_price - self.base_sl)
        buy == Lower(self.direction) = "buy"
        entry_price == IF buy
                       THEN RoundTo(lines * self.base_price - i * total_range, lines, unit)
                       ELSE RoundTo(lines * self.base_price + i * total_range, lines, unit)
        order_sl == self.base_sl
        sl_distance == Abs(entry_price - order_sl)
        order_tp == IF self.use_base_tp_for_all THEN self.base_tp
                    ELSE IF buy
                    THEN RoundTo(100 * entry_price + sl_distance * self.individual_tp_rr_ratio, 100, unit)
                    ELSE RoundTo(100 * entry_price - sl_distance * self.individual_tp_rr_ratio, 100, unit)
        lot_size == _calculate_lot_size(self, entry_price, order_sl)
    IN  IF buy /\ (entry_price <= self.base_sl \/ entry_price >= self.base_price
                   \/ order_tp <= entry_price)
        THEN <<>>
        ELSE IF ~buy /\ (entry_price >= self.base_sl \/ entry_price <= self.base_price
                         \/ order_tp >= entry_price)
        THEN <<>>
        ELSE IF lot_size > 0
        THEN << GridSpecOf(self.symbol, IF buy THEN "BUY_LIMIT" ELSE "SELL_LIMIT",
                           entry_price, order_sl, order_tp, lot_size, i) >>
        ELSE <<>>

StaticGridModel_generate_grid_orders(self) ==
    LET grid_orders == Clear(self.grid_orders)
        total_range == Abs(self.base_price - self.base_sl)
    IN  IF total_range <= 0 THEN Generated(<<>>, grid_orders)
        ELSE IF 2 * total_range < _get_decimals(self) * (self.num_grid_lines + 1)
        THEN Generated(<<>>, grid_orders)
        ELSE ReturnUnique(grid_orders
                          \o Flatten([i \in 1..self.num_grid_lines |-> StaticLevel(self, i)]))

(* DualGridModel *)
DualGridModel(base_trade_params, historical_data, risk_manager, num_breakout_levels, num_reversal_levels, atr_multiplier_breakout, atr_multiplier_reversal, stop_loss_atr_multiplier, take_profit_atr_multiplier) ==
    Subclass(BaseGridModel(base_trade_params, historical_data, risk_manager),
             "DualGridModel",
             [ num_breakout_levels |-> Max(0, num_breakout_levels),
               num_reversal_levels |-> Max(0, num_reversal_levels),
               atr_multiplier_breakout |-> Max(10, atr_multiplier_breakout),
               atr_multiplier_reversal |-> Max(10, atr_multiplier_reversal),
               sl_atr_multiplier |-> Max(10, stop_loss_atr_multiplier),
               tp_atr_multiplier |-> Max(10, take_profit_atr_multiplier) ])

\* one candidate of DualGridModel.generate_grid_orders: the order of the given
\* kind at side * i spacings from the base price, if it passes the validation
DualOrder(self, order_type, i, spacing, side, long) ==
    LET unit == _get_decimals(self)
        sl_distance == self.current_atr * self.sl_atr_multiplier
        tp_distance == self.current_atr * self.tp_atr_multiplier
        entry == RoundTo(100 * self.base_price + side * i * spacing, 100, unit)
        sl == IF long THEN RoundTo(100 * entry - sl_distance, 100, unit)
              ELSE RoundTo(100 * entry + sl_distance, 100, unit)
        tp == IF long THEN RoundTo(100 * entry + tp_distance, 100, unit)
              ELSE RoundTo(100 * entry - tp_distance, 100, unit)
        lot == _calculate_lot_size(self, entry, sl)
    IN  IF lot > 0 /\ (IF long THEN entry > sl /\ entry < tp ELSE entry < sl /\ entry > tp)
        THEN << GridSpecOf(self.symbol, order_type, entry, sl, tp, lot, i) >>
        ELSE <<>>

DualGridModel_generate_grid_orders(self) ==
    LET grid_orders == Clear(self.grid_orders)
        spacing_breakout == self.current_atr * self.atr_multiplier_breakout
        spacing_reversal == self.current_atr * self.atr_multiplier_reversal
        breakout == IF self.num_breakout_levels > 0 /\ spacing_breakout > 0
                    THEN Flatten([i \in 1..self.num_breakout_levels |->
                                    DualOrder(self, "BUY_STOP", i, spacing_breakout, 1, TRUE)
                                    \o DualOrder(self, "SELL_STOP", i, spacing_breakout, -1, FALSE)])
                    ELSE <<>>
        reversal == IF self.num_reversal_levels > 0 /\ spacing_reversal > 0
                    THEN Flatten([i \in 1..self.num_reversal_levels |->
                                    DualOrder(self, "SELL_LIMIT", i, spacing_reversal, 1, FALSE)
                                    \o DualOrder(self, "BUY_LIMIT", i, spacing_reversal, -1, TRUE)])
                    ELSE <<>>
    IN  IF self.current_atr <= 0 THEN Generated(<<>>, grid_orders)
        ELSE IF self.current_atr * self.sl_atr_multiplier <= 0
                \/ self.current_atr * self.tp_atr_multiplier <= 0
        THEN Generated(<<>>, grid_orders)
        ELSE ReturnUnique(grid_orders \o breakout \o reversal)

(* PyramidGridModel *)
PyramidGridModel(base_trade_params, historical_data, risk_manager, num_pyramid_levels, atr_multiplier_spacing, sl_at_previous_level, sl_atr_multiplier, tp_atr_multiplier) ==
    Subclass(BaseGridModel(base_trade_params, historical_data, risk_manager),
             "PyramidGridModel",
             [ num_pyramid_levels |-> Max(1, num_pyramid_levels),
               atr_multiplier_spacing |-> Max(10, atr_multiplier_spacing),
               sl_at_previous_level |-> sl_at_previous_level,
               sl_atr_multiplier |-> Max(10, sl_atr_multiplier),
               tp_atr_multiplier |-> Max(10, tp_atr_multiplier) ])

\* the loop of PyramidGridModel.generate_grid_orders from level i on; it ends at
\* the first level that fails a check or is given no lot
RECURSIVE PyramidLoop(_, _, _, _)
PyramidLoop(self, i, last_entry_price, grid_orders) ==
    IF i > self.num_pyramid_levels THEN grid_orders
    ELSE
    LET unit == _get_decimals(self)
        buy == Lower(self.direction) = "buy"
        spacing == self.current_atr * self.atr_multiplier_spacing
        tp_distance == self.current_atr * self.tp_atr_multiplier
        sl_atr_dist == self.current_atr * self.sl_atr_multiplier
        entry_price == IF buy THEN RoundTo(100 * last_entry_price + spacing, 100, unit)
                       ELSE RoundTo(100 * last_entry_price - spacing, 100, unit)
        order_sl == IF self.sl_at_previous_level THEN RoundTo(last_entry_price, 1, unit)
                    ELSE IF buy THEN RoundTo(100 * entry_price - sl_atr_dist, 100, unit)
                    ELSE RoundTo(100 * entry_price + sl_atr_dist, 100, unit)
        order_tp == IF buy THEN RoundTo(100 * entry_price + tp_distance, 100, unit)
                    ELSE RoundTo(100 * entry_price - tp_distance, 100, unit)
        lot_size == _calculate_lot_size(self, entry_price, order_sl)
    IN  IF buy /\ (entry_price <= order_sl \/ entry_price >= order_tp) THEN grid_orders
        ELSE IF ~buy /\ (entry_price >= order_sl \/ entry_price <= order_tp) THEN grid_orders
        ELSE IF lot_size > 0
        THEN PyramidLoop(self, i + 1, entry_price,
                         Append(grid_orders,
                                GridSpecOf(self.symbol, IF buy THEN "BUY_STOP" ELSE "SELL_STOP",
                                           entry_price, order_sl, order_tp, lot_size, i)))
        ELSE grid_orders

PyramidGridModel_generate_grid_orders(self) ==
    LET grid_orders == Clear(self.grid_orders)
    IN  IF self.current_atr <= 0 THEN Generated(<<>>, grid_orders)
        ELSE IF 2 * self.current_atr * self.atr_multiplier_spacing < 100 * _get_decimals(self)
        THEN Generated(<<>>, grid_orders)
        ELSE LET all == PyramidLoop(self, 1, self.base_price, grid_orders)
             IN  Generated(all, all)

(* StructureGridModel *)
StructureGridModel(base_trade_params, historical_data, risk_manager, num_swing_levels_to_consider, entry_buffer_atr_multiplier, sl_atr_multiplier, tp_atr_multiplier) ==
    Subclass(BaseGridModel(base_trade_params, historical_data, risk_manager),
             "StructureGridModel",
             [ num_swing_levels |-> Max(1, num_swing_levels_to_consider),
               entry_buffer_price |-> Max(0, entry_buffer_atr_multiplier)
                                        * Get(base_trade_params, "atr", 0),
               sl_atr_multiplier |-> Max(10, sl_atr_multiplier),
               tp_atr_multiplier |-> Max(10, tp_atr_multiplier) ])

\* .tail(n).tolist()
TailOf(list, n) == SubSeq(list, Max(1, Len(list) - n + 1), Len(list))

\* sorted(list(set(prices))), reverse or not
RECURSIVE Sorted(_, _)
Sorted(prices, reverse) ==
    IF prices = {} THEN <<>>
    ELSE LET first == CHOOSE p \in prices :
                        \A q \in prices : IF reverse THEN q <= p ELSE p <= q
         IN  <<first>> \o Sorted(prices \ {first}, reverse)

\* one of the loops of StructureGridModel.generate_grid_orders over swing levels:
\* above is TRUE for the swing highs, long for the buy orders; acc holds
\* grid_orders and processed_levels
RECURSIVE StructureLoop(_, _, _, _, _, _)
StructureLoop(self, levels, order_type, above, long, acc) ==
    IF levels = <<>> THEN acc
    ELSE
    LET unit == _get_decimals(self)
        level == Head(levels)
        sl_dist == self.current_atr * self.sl_atr_multiplier
        tp_dist == self.current_atr * self.tp_atr_multiplier
        entry_price == IF above THEN RoundTo(100 * level + self.entry_buffer_price, 100, unit)
                       ELSE RoundTo(100 * level - self.entry_buffer_price, 100, unit)
        order_sl == IF long THEN RoundTo(100 * entry_price - sl_dist, 100, unit)
                    ELSE RoundTo(100 * entry_price + sl_dist, 100, unit)
        order_tp == IF long THEN RoundTo(100 * entry_price + tp_dist, 100, unit)
                    ELSE RoundTo(100 * entry_price - tp_dist, 100, unit)
        lot_size == _calculate_lot_size(self, entry_price, order_sl)
        skip == StructureLoop(self, Tail(levels), order_type, above, long, acc)
    IN  IF above /\ level <= self.base_price THEN skip
        ELSE IF ~above /\ level >= self.base_price THEN skip
        ELSE IF entry_price \in acc.processed_levels THEN skip
        ELSE IF long /\ (entry_price <= order_sl \/ entry_price >= order_tp) THEN skip
        ELSE IF ~long /\ (entry_price >= order_sl \/ entry_price <= order_tp) THEN skip
        ELSE IF lot_size > 0
        THEN StructureLoop(self, Tail(levels), order_type, above, long,
                           [ grid_orders |->
                               Append(acc.grid_orders,
                                      GridSpecOf(self.symbol, order_type, entry_price, order_sl,
                                                 order_tp, lot_size, level)),
                             processed_levels |-> acc.processed_levels \cup {entry_price} ])
        ELSE skip

StructureGridModel_generate_grid_orders(self) ==
    LET grid_orders == Clear(self.grid_orders)
        h == self.historical_data
        highs == Sorted(Elements(TailOf(h.swing_high_prices, self.num_swing_levels)), FALSE)
        lows == Sorted(Elements(TailOf(h.swing_low_prices, self.num_swing_levels)), TRUE)
        start == [grid_orders |-> grid_orders, processed_levels |-> {}]
        all == IF Lower(self.direction) = "buy"
               THEN StructureLoop(self, lows, "BUY_LIMIT", FALSE, TRUE,
                                  StructureLoop(self, highs, "BUY_STOP", TRUE, TRUE, start))
               ELSE StructureLoop(self, highs, "SELL_LIMIT", TRUE, FALSE,
                                  StructureLoop(self, lows, "SELL_STOP", FALSE, FALSE, start))
    IN  IF self.current_atr <= 0
           /\ (self.entry_buffer_price > 0 \/ self.sl_atr_multiplier > 0
               \/ self.tp_atr_multiplier > 0)
        THEN Generated(<<>>, grid_orders)
        ELSE IF h.len = 0 THEN Generated(<<>>, grid_orders)
        ELSE Generated(all.grid_orders, all.grid_orders)

(* RangeGridModel with range_definition_method = 'bollinger' *)
\* bb_period of RangeGridModel
BB_PERIOD == 20

RangeGridModel(base_trade_params, historical_data, risk_manager, num_grid_lines_per_side, spacing_as_fraction_of_range, sl_buffer_atr_multiplier, tp_target_other_side_of_range, tp_atr_multiplier) ==
    Subclass(BaseGridModel(base_trade_params, historical_data, risk_manager),
             "RangeGridModel",
             [ num_grid_lines |-> Max(1, num_grid_lines_per_side),
               spacing_fraction |-> Max(5, Min(50, spacing_as_fraction_of_range)),
               sl_buffer_atr |-> Get(base_trade_params, "atr", 0)
                                   * Max(10, sl_buffer_atr_multiplier),
               tp_target_other_side |-> tp_target_other_side_of_range,
               tp_atr_multiplier |-> Max(10, tp_atr_multiplier) ])

\* _define_range: whether a range was found, and range_high and range_low in
\* quarters of a point.  The bands are those of the latest row, stored or as
\* calculate_bollinger_bands finds them once the history has bb_period rows.
_define_range(self) ==
    LET h == self.historical_data
        none == [ok |-> FALSE, range_high |-> 0, range_low |-> 0]
    IN  IF h.len = 0 THEN none
        ELSE IF "BB" \notin h.cols /\ h.len < BB_PERIOD THEN none
        ELSE IF h.bb_lower >= h.bb_upper
        THEN IF self.current_atr > 0
             THEN [ ok |-> TRUE,
                    range_high |-> 2 * (h.bb_upper + h.bb_lower) + self.current_atr,
                    range_low |-> 2 * (h.bb_upper + h.bb_lower) - self.current_atr ]
             ELSE none
        ELSE [ok |-> TRUE, range_high |-> 4 * h.bb_upper, range_low |-> 4 * h.bb_lower]

\* the two loops of RangeGridModel.generate_grid_orders from line i on: the sell
\* limits down from range_high (sell) and the buy limits up from range_low
RECURSIVE RangeLoop(_, _, _, _, _)
RangeLoop(self, range, sell, i, grid_orders) ==
    IF i >= self.num_grid_lines THEN grid_orders
    ELSE
    LET unit == _get_decimals(self)
        \* line_spacing = step / 400 points
        step == (range.range_high - range.range_low) * self.spacing_fraction
        from == IF sell THEN range.range_high ELSE range.range_low
        to == IF sell THEN range.range_low ELSE range.range_high
        entry == IF sell THEN RoundTo(100 * from - i * step, 400, unit)
                 ELSE RoundTo(100 * from + i * step, 400, unit)
        too_deep == IF sell THEN 800 * entry <= 200 * to + step
                    ELSE 800 * entry >= 200 * to - step
        sl == IF sell THEN RoundTo(25 * from + self.sl_buffer_atr, 100, unit)
              ELSE RoundTo(25 * from - self.sl_buffer_atr, 100, unit)
        tp == IF self.tp_target_other_side THEN RoundTo(to, 4, unit)
              ELSE IF sell
              THEN RoundTo(100 * entry - self.current_atr * self.tp_atr_multiplier, 100, unit)
              ELSE RoundTo(100 * entry + self.current_atr * self.tp_atr_multiplier, 100, unit)
        lot == _calculate_lot_size(self, entry, sl)
        invalid == IF sell THEN entry >= sl \/ entry <= tp ELSE entry <= sl \/ entry >= tp
    IN  IF too_deep THEN grid_orders
        ELSE IF invalid THEN RangeLoop(self, range, sell, i + 1, grid_orders)
        ELSE IF lot > 0
        THEN RangeLoop(self, range, sell, i + 1,
                       Append(grid_orders,
                              GridSpecOf(self.symbol, IF sell THEN "SELL_LIMIT" ELSE "BUY_LIMIT",
                                         entry, sl, tp, lot, i)))
        ELSE RangeLoop(self, range, sell, i + 1, grid_orders)

RangeGridModel_generate_grid_orders(self) ==
    LET grid_orders == Clear(self.grid_orders)
        range == _define_range(self)
        unit == _get_decimals(self)
        range_width == range.range_high - range.range_low
    IN  IF ~range.ok THEN Generated(<<>>, grid_orders)
        ELSE IF range_width < 8 * unit THEN Generated(<<>>, grid_orders)
        ELSE IF range_width * self.spacing_fraction < 400 * unit THEN Generated(<<>>, grid_orders)
        ELSE ReturnUnique(RangeLoop(self, range, FALSE, 0,
                                    RangeLoop(self, range, TRUE, 0, grid_orders)))

(* ------------------------- strategy inputs ----------------------------- *)
\* the keyword arguments of each strategy class at their defaults, which
\* create_new_grid uses as no <model>_params are configured
DefaultParams ==
    [ name \in model_mapping |->
        CASE name = "VolatilityGridModel" -> <<3, 100>>
          [] name = "DualGridModel" -> <<2, 2, 100, 75, 100, 150>>
          [] name = "StaticGridModel" -> <<5, TRUE, 100>>
          [] name = "PyramidGridModel" -> <<3, 100, TRUE, 100, 200>>
          [] name = "StructureGridModel" -> <<3, 10, 100, 150>>
          [] OTHER -> <<3, 20, 50, TRUE, 150>> ]

\* other keyword arguments a caller may pass
OtherParams ==
    [ name \in model_mapping |->
        CASE name = "VolatilityGridModel" -> <<2, 60>>
          [] name = "DualGridModel" -> <<1, 2, 50, 50, 100, 150>>
          [] name = "StaticGridModel" -> <<3, FALSE, 100>>
          [] name = "PyramidGridModel" -> <<3, 100, FALSE, 200, 200>>
          [] name = "StructureGridModel" -> <<2, 0, 100, 150>>
          [] OTHER -> <<3, 20, 50, FALSE, 150>> ]

\* ModelClass(base_trade_params, historical_data, risk_manager, **kw)
ModelClass(name, base_trade_params, historical_data, risk_manager, kw) ==
    CASE name = "VolatilityGridModel" ->
           VolatilityGridModel(base_trade_params, historical_data, risk_manager, kw[1], kw[2])
      [] name = "DualGridModel" ->
           DualGridModel(base_trade_params, historical_data, risk_manager,
                         kw[1], kw[2], kw[3], kw[4], kw[5], kw[6])
      [] name = "StaticGridModel" ->
           StaticGridModel(base_trade_params, historical_data, risk_manager, kw[1], kw[2], kw[3])
      [] name = "PyramidGridModel" ->
           PyramidGridModel(base_trade_params, historical_data, risk_manager,
                            kw[1], kw[2], kw[3], kw[4], kw[5])
      [] name = "StructureGridModel" ->
           StructureGridModel(base_trade_params, historical_data, risk_manager,
                              kw[1], kw[2], kw[3], kw[4])
      [] OTHER ->
           RangeGridModel(base_trade_params, historical_data, risk_manager,
                          kw[1], kw[2], kw[3], kw[4], kw[5])

\* model_instance.generate_grid_orders()
generate_grid_orders(self) ==
    CASE self.name = "VolatilityGridModel" -> VolatilityGridModel_generate_grid_orders(self)
      [] self.name = "DualGridModel" -> DualGridModel_generate_grid_orders(self)
      [] self.name = "StaticGridModel" -> StaticGridModel_generate_grid_orders(self)
      [] self.name = "PyramidGridModel" -> PyramidGridModel_generate_grid_orders(self)
      [] self.name = "StructureGridModel" -> StructureGridModel_generate_grid_orders(self)
      [] OTHER -> RangeGridModel_generate_grid_orders(self)

\* base trades around price 1000, some of them a whole number of CoarseUnit
\* points, with a stop on either side or none, an ATR that is negative, zero, half
\* a CoarseUnit and more, on a symbol with settings and on one without; and base
\* trades that lack the symbol or the direction
StrategyTrades ==
    LET full == { BaseTrade(s, d, p, sl, tp, a) :
                    s \in {"EURUSD", "NZDUSD", ""}, d \in {"buy", "SELL", "hold"},
                    p \in {1000, 1003}, sl \in {990, 1010, 0}, tp \in {1020, 980},
                    a \in {-5, 0, 5, 6, 20} }
        plain == BaseTrade("EURUSD", "buy", 1000, 990, 1020, 5)
    IN  full \cup { Del(plain, "symbol"), Del(plain, "direction"), Del(plain, "atr"),
                    Del(plain, "base_price"), Del(plain, "base_sl") }

\* a history together with the High of its rows marked as swing highs and the
\* Low of those marked as swing lows, oldest first
WithSwings(h, swing_high_prices, swing_low_prices) ==
    h @@ [swing_high_prices |-> swing_high_prices, swing_low_prices |-> swing_low_prices]

\* an empty history, one with bands around the base prices and swings on both
\* sides, two of them within one CoarseUnit, and one whose bands coincide
StrategyHistories ==
    { WithSwings(History({}, 0, 0, <<10000, 10000, 20, 10, 10>>, <<1, 0, 0>>,
                         <<NoPrice, NoPrice>>), <<>>, <<>>),
      WithSwings(History({"ATR", "TREND", "BB", "SWING"}, 60, 10, <<10000, 10000, 20, 10, 10>>,
                         <<1030, 970, 1000>>, <<1004, 996>>),
                 <<1012, 1006, 1004, 1006>>, <<988, 994, 996>>),
      WithSwings(History({"ATR", "TREND", "SWING"}, 60, 10, <<10000, 10000, 20, 10, 10>>,
                         <<1000, 1000, 1000>>, <<1004, 996>>),
                 <<1004>>, <<996>>) }

(* ------------------------- strategy actions ---------------------------- *)
\* calls of generate_grid_orders made on one instance
MaxGenerations == 2

StrategyInit ==
    \E name \in model_mapping, p \in StrategyTrades, h \in StrategyHistories,
       rm \in RiskManagerKinds, kw \in {"default", "other"} :
        InitWith([Call("strategy") EXCEPT
                    !.args = [ name |-> name, base_trade_params |-> p, historical_data |-> h,
                               risk_manager |-> rm,
                               kw |-> IF kw = "default" THEN DefaultParams[name]
                                      ELSE OtherParams[name] ]])

\* the strategy is built; result holds the instance and what its calls returned
ConstructStrategy ==
    /\ last.op = "strategy"
    /\ \E m \in {ModelClass(last.args.name, last.args.base_trade_params,
                             last.args.historical_data, last.args.risk_manager, last.args.kw)} :
         Returns("construct",
                 IF m.raised THEN m ELSE [raised |-> FALSE, self |-> m.self, returned |-> <<>>])

GenerateGridOrders ==
    /\ last.op \in {"construct", "generate_grid_orders"}
    /\ ~last.result.raised
    /\ Len(last.result.returned) < MaxGenerations
    /\ \E g \in {generate_grid_orders(last.result.self)} :
         Returns("generate_grid_orders",
                 [ raised |-> FALSE,
                   self |-> [last.result.self EXCEPT !.grid_orders = g.grid_orders],
                   returned |-> Append(last.result.returned, g.returned) ])

\* prices a strategy asks a lot size for: <<entry_price, sl_price>>
LotRequests == { <<1000, 990>>, <<1000, 1010>>, <<1000, 1000>> }

\* the instance is asked for the lot size of one order
CalculateLotSizeOfStrategy ==
    /\ last.op = "construct"
    /\ ~last.result.raised
    /\ \E q \in LotRequests :
         Returns("_calculate_lot_size",
                 [ raised |-> FALSE, self |-> last.result.self, entry_price |-> q[1],
                   sl_price |-> q[2], lot |-> _calculate_lot_size(last.result.self, q[1], q[2]) ])

NextStrategy == ConstructStrategy \/ GenerateGridOrders \/ CalculateLotSizeOfStrategy

StrategySpec == StrategyInit /\ [][NextStrategy]_vars

(* ------------------- create_new_grid from a base trade ----------------- *)
\* the lines of create_new_grid that complete base_trade_params: 'atr' and, from
\* three ATR on either side of the base price, 'base_sl' and 'base_tp'
WithDefaults(base_trade_params) ==
    LET p == IF "atr" \notin DOMAIN base_trade_params
             THEN Put(base_trade_params, "atr", 0) ELSE base_trade_params
        current_price == Get(p, "base_price", 0)
        atr_val == p.atr
        direction_buy == Lower(Get(p, "direction", "buy")) = "buy"
        default_sl == IF direction_buy THEN current_price - 3 * atr_val
                      ELSE current_price + 3 * atr_val
        default_tp == IF direction_buy THEN current_price + 3 * atr_val
                      ELSE current_price - 3 * atr_val
        usable == current_price > 0 /\ atr_val > 0
    IN  IF "base_sl" \notin DOMAIN p \/ "base_tp" \notin DOMAIN p
        THEN Put(Put(p, "base_sl", Get(p, "base_sl", IF usable THEN default_sl ELSE 0)),
                 "base_tp", Get(p, "base_tp", IF usable THEN default_tp ELSE 0))
        ELSE p

\* the strategy that create_new_grid builds from the router's choice on the
\* engine's RiskManager; nothing is built when the call returns before it
BuiltModel(base_trade_params, historical_data) ==
    IF DOMAIN base_trade_params = {} \/ historical_data.len = 0
    THEN [model_name |-> Unknown, raised |-> TRUE]
    ELSE LET p == WithDefaults(base_trade_params)
             model_name == select_grid_model(p, historical_data)
         IN  IF model_name \notin model_mapping THEN [model_name |-> model_name, raised |-> TRUE]
             ELSE [model_name |-> model_name]
                  @@ ModelClass(model_name, p, historical_data, "RiskManager",
                                DefaultParams[model_name])

\* desired_orders_spec = model_instance.generate_grid_orders()
DesiredOrdersSpec(model_instance) ==
    IF model_instance.raised THEN <<>>
    ELSE generate_grid_orders(model_instance.self).returned

\* GridManager.create_new_grid(base_trade_params, historical_data) of a
\* GridManager built on the engine's RiskManager, given the strategy it built
\* and the orders the strategy generated: raised is TRUE when the call ends in
\* an exception, grid_id is NoGrid when it returns None
create_new_grid_with_router(g, base_trade_params, historical_data, model_instance, desired_orders_spec, t, risk, connected, tr) ==
    LET none == [raised |-> FALSE, g |-> g, grid_id |-> NoGrid]
    IN  IF DOMAIN base_trade_params = {} \/ historical_data.len = 0 THEN none
        \* the log line that reads base_trade_params['symbol']
        ELSE IF "symbol" \notin DOMAIN base_trade_params
        THEN [raised |-> TRUE, g |-> g, grid_id |-> NoGrid]
        ELSE IF model_instance.model_name \notin model_mapping THEN none
        ELSE IF model_instance.raised THEN none
        ELSE create_new_grid(g, model_instance.model_name, base_trade_params.symbol,
                             desired_orders_spec, t, risk, connected, tr)
             @@ [raised |-> FALSE]

\* the base trades of the strategies, and base trades that leave the stop and
\* the target to create_new_grid
CreateTrades ==
    StrategyTrades
    \cup { Del(Del(BaseTrade("EURUSD", d, 1000, 0, 0, a), "base_sl"), "base_tp") :
             d \in {"buy", "SELL"}, a \in {0, 5} }
    \cup { <<>> }

CreateInit ==
    \E p \in CreateTrades, h \in StrategyHistories :
        InitWith([Call("create") EXCEPT
                    !.args = [base_trade_params |-> p, historical_data |-> h]])

CreateNewGridFromParams ==
    /\ last.op = "create"
    /\ \E risk \in RiskAnswers, tr \in TradeResults,
          model_instance \in {BuiltModel(last.args.base_trade_params,
                                         last.args.historical_data)} :
         \E desired_orders_spec \in {DesiredOrdersSpec(model_instance)} :
           \E r \in {create_new_grid_with_router(GM, last.args.base_trade_params,
                                                 last.args.historical_data, model_instance,
                                                 desired_orders_spec, now, risk,
                                                 mt5_initialized, tr)} :
             /\ SetGM(r.g)
             /\ last' = [last EXCEPT !.op = "create_new_grid",
                                     !.result = [raised |-> r.raised, grid_id |-> r.grid_id]]
    /\ UNCHANGED <<mt5_initialized, now>>

NextCreate == CreateNewGridFromParams

CreateSpec == CreateInit /\ [][NextCreate]_vars

(* ------------------- grids whose owner retires them -------------------- *)
\* the owner of the GridManager clears the is_active attribute of a grid that
\* get_active_grid_info or get_all_active_grids handed out
DeactivateGrid ==
    /\ \E grid_id \in DOMAIN active_grids :
         /\ active_grids[grid_id].is_active
         /\ active_grids' = [active_grids EXCEPT ![grid_id].is_active = FALSE]
    /\ last' = Call("deactivate")
    /\ UNCHANGED <<orders, pending_orders, active_positions, regeneration_counts,
                   slot_cooldown_tracker, mt5_initialized, now, regen_attempt_time>>

\* requests of a caller of place_new_order that name no grid, and a grid that
\* the GridManager has not registered
UngriddedRequests ==
    { Request("EURUSD", "BUY_STOP", 100, 95, 105, 1),
      [Request("EURUSD", "BUY_STOP", 100, 95, 105, 1) EXCEPT
          !.grid_id = GridId("VolatilityGridModel", "EURUSD", 0)] }

NextRetire ==
    \/ CreateNewGrid(MaxGridOrders, MaxGrids)
    \/ PlaceNewOrder(MaxGridOrders, UngriddedRequests)
    \/ ProcessMarketDataUpdate(Bars, MaxGridOrders, FALSE)
    \/ DeactivateGrid

RetireSpec == Init /\ [][NextRetire]_vars

\* the GridManager under the config objects of the repository, with a clock that
\* lets a cooldown pass
NextWiden ==
    \/ CreateNewGrid(MaxGridOrders, MaxGrids)
    \/ ProcessMarketDataUpdateUnder(Configs, Bars, MaxGridOrders, TRUE)
    \/ Tick({cooldown_seconds})

WidenSpec == Init /\ [][NextWiden]_vars

\* grids registered and orders held when several grids are created
MaxRepeatedGrids == 2
MaxRepeatedOrders == 4

\* the GridManager when create_new_grid is called more than once, in the same second
\* or a cooldown later
NextRepeat ==
    \/ CreateNewGrid(MaxRepeatedOrders, MaxRepeatedGrids)
    \/ ProcessMarketDataUpdate(Bars, MaxRepeatedOrders, FALSE)
    \/ Tick({cooldown_seconds})

RepeatSpec == Init /\ [][NextRepeat]_vars

(* ---------------------- the static ladder alone ------------------------ *)
\* lines of a static ladder: one, and numbers that do and do not divide the ranges
StaticLines == {1, 2, 4, 5}

\* base trades of a static ladder at price 1000: the stop forty, ten and four
\* points away on either side and on the base price, on a symbol priced in points
\* and on one priced in CoarseUnit points
StaticTrades ==
    { BaseTrade(s, d, 1000, sl, tp, 5) :
        s \in {"EURUSD", "NZDUSD"}, d \in {"buy", "SELL"},
        sl \in {960, 990, 996, 1000, 1004, 1010, 1040}, tp \in {1020, 980} }

StaticInit ==
    \E p \in StaticTrades, h \in StrategyHistories, rm \in RiskManagerKinds \ {Unknown},
       n \in StaticLines, use_base_tp_for_all \in BOOLEAN :
        InitWith([Call("strategy") EXCEPT
                    !.args = [ name |-> "StaticGridModel", base_trade_params |-> p,
                               historical_data |-> h, risk_manager |-> rm,
                               kw |-> <<n, use_base_tp_for_all, 100>> ]])

NextStatic == ConstructStrategy \/ GenerateGridOrders

StaticSpec == StaticInit /\ [][NextStatic]_vars

(* ======================================================================= *)
\* C28: for each of the six strategies and every valid input, the sequence that
\* generate_grid_orders returns holds no two specifications with the same
\* (order_type, entry_price) pair.
SamePair(a, b) == a.order_type = b.order_type /\ a.entry_price = b.entry_price

NoDuplicatePairs(list) ==
    \A i, j \in 1..Len(list) : i # j => ~SamePair(list[i], list[j])

C28_NoDuplicatePairs ==
    last.op = "generate_grid_orders" =>
        \A k \in 1..Len(last.result.returned) : NoDuplicatePairs(last.result.returned[k])

ReturnedTwice(name) ==
    /\ last.op = "generate_grid_orders"
    /\ last.args.name = name
    /\ Len(last.result.returned) = 2
    /\ last.result.returned[2] # <<>>

ValidButForAtr(p) ==
    /\ Get(p, "symbol", Unknown) \notin {Unknown, ""}
    /\ Lower(Get(p, "direction", Unknown)) \in {"buy", "sell"}
    /\ Get(p, "base_price", 0) > 0
    /\ Get(p, "base_sl", 0) > 0
    /\ Lower(p.direction) = "buy" => p.base_sl < p.base_price
    /\ Lower(p.direction) = "sell" => p.base_sl > p.base_price

C30_NonPositiveAtrYieldsEmpty ==
    (/\ last.op \in {"construct", "generate_grid_orders"}
     /\ ValidButForAtr(last.args.base_trade_params)
     /\ "atr" \in DOMAIN last.args.base_trade_params
     /\ last.args.base_trade_params.atr <= 0)
    => /\ ~last.result.raised
       /\ \A k \in 1..Len(last.result.returned) : last.result.returned[k] = <<>>

(* ======================================================================= *)
\* C26: for a symbol with no configuration, or with a required field missing
\* from it, a lot size asked for by a strategy while it generates its orders is
\* answered with a configuration error and never with a lot size of 0.
C26_ConfigurationErrorSurfaces ==
    (last.op = "_calculate_lot_size" /\ get_symbol_config(last.result.self.symbol).raised)
    => last.result.raised

(* ======================================================================= *)
\* C21: when the construction of the strategy is rejected - symbol, direction,
\* base price, base stop or ATR missing or zero, a direction that is neither buy
\* nor sell, or for the static ladder a base price on the wrong side of the base
\* stop - create_new_grid raises nothing, returns no grid id and leaves the
\* order table, the pending and active lists, the regeneration counters and the
\* registered grids as they were.
ConstructionRejected(p, model_name) ==
    \/ Get(p, "symbol", Unknown) \in {Unknown, ""}
    \/ Get(p, "direction", Unknown) \in {Unknown, ""}
    \/ Get(p, "base_price", 0) = 0
    \/ Get(p, "base_sl", 0) = 0
    \/ Get(p, "atr", 0) = 0
    \/ Lower(p.direction) \notin {"buy", "sell"}
    \/ /\ model_name = "StaticGridModel"
       /\ \/ Lower(p.direction) = "buy" /\ p.base_price <= p.base_sl
          \/ Lower(p.direction) = "sell" /\ p.base_price >= p.base_sl

C21_RejectedConstructionIsQuiet ==
    (/\ last.op = "create_new_grid"
     /\ ConstructionRejected(last.args.base_trade_params,
                             select_grid_model(WithDefaults(last.args.base_trade_params),
                                               last.args.historical_data)))
    => /\ ~last.result.raised
       /\ last.result.grid_id = NoGrid
       /\ orders = <<>> /\ pending_orders = <<>> /\ active_positions = <<>>
       /\ regeneration_counts = <<>> /\ active_grids = <<>>

(* ======================================================================= *)
\* C31: a static ladder for direction buy with base price above the base stop and
\* N lines returns nothing when (base price - base stop)/(N+1) is less than half
\* the price step of the symbol; otherwise it returns, in the order of i, one
\* BUY_LIMIT specification for each i in 1..N whose entry, base price -
\* i x (base price - base stop)/(N+1) rounded to the price step, lies strictly
\* between the base stop and the base price, has its take-profit above it, gets a
\* positive lot size and differs from the entries of the smaller i; every one has
\* the base stop as its SL.  SELL_LIMITs mirror this for sell.  The construction
\* is rejected when the base price is not above the base stop for buy, not below
\* it for sell.
LadderEntry(self, i) ==
    LET lines == self.num_grid_lines + 1
        total_range == Abs(self.base_price - self.base_sl)
    IN  IF Lower(self.direction) = "buy"
        THEN RoundTo(lines * self.base_price - i * total_range, lines, _get_decimals(self))
        ELSE RoundTo(lines * self.base_price + i * total_range, lines, _get_decimals(self))

LadderTp(self, entry) ==
    LET reward == Abs(entry - self.base_sl) * self.individual_tp_rr_ratio
    IN  IF self.use_base_tp_for_all THEN self.base_tp
        ELSE IF Lower(self.direction) = "buy"
        THEN RoundTo(100 * entry + reward, 100, _get_decimals(self))
        ELSE RoundTo(100 * entry - reward, 100, _get_decimals(self))

LadderQualifies(self, entry) ==
    /\ Min(self.base_sl, self.base_price) < entry
    /\ entry < Max(self.base_sl, self.base_price)
    /\ IF Lower(self.direction) = "buy" THEN LadderTp(self, entry) > entry
       ELSE LadderTp(self, entry) < entry
    /\ _calculate_lot_size(self, entry, self.base_sl) > 0

LadderKept(self) ==
    { i \in 1..self.num_grid_lines :
        /\ LadderQualifies(self, LadderEntry(self, i))
        /\ \A j \in 1..(i - 1) : LadderEntry(self, j) # LadderEntry(self, i) }

IsLadder(self, returned) ==
    IF 2 * Abs(self.base_price - self.base_sl) < _get_decimals(self) * (self.num_grid_lines + 1)
    THEN returned = <<>>
    ELSE /\ Len(returned) = Cardinality(LadderKept(self))
         /\ \A x \in 1..Len(returned) :
              /\ returned[x].order_type
                   = (IF Lower(self.direction) = "buy" THEN "BUY_LIMIT" ELSE "SELL_LIMIT")
              /\ returned[x].sl = self.base_sl
              /\ returned[x].grid_id - SlotTagBase \in LadderKept(self)
              /\ returned[x].entry_price = LadderEntry(self, returned[x].grid_id - SlotTagBase)
              /\ \A y \in 1..(x - 1) : returned[y].grid_id < returned[x].grid_id

WrongSide(p) ==
    \/ Lower(p.direction) = "buy" /\ p.base_price <= p.base_sl
    \/ Lower(p.direction) = "sell" /\ p.base_price >= p.base_sl

C31_StaticLadder ==
    /\ (last.op = "generate_grid_orders" /\ last.args.name = "StaticGridModel")
         => \A k \in 1..Len(last.result.returned) :
              IsLadder(last.result.self, last.result.returned[k])
    /\ (last.op = "construct" /\ last.args.name = "StaticGridModel"
          /\ WrongSide(last.args.base_trade_params))
         => last.result.raised

\* reached: a ladder of five lines whose entries are rounded, and none dropped
C31_Witness ==
    /\ last.op = "generate_grid_orders"
    /\ last.result.self.num_grid_lines = 5
    /\ Len(last.result.returned[1]) = 5
    /\ Lower(last.result.self.direction) = "buy"

\* C31 as stated: with positive lot sizes and the take-profit above every entry
\* the ladder has exactly N specifications, with entry_i = base price -
\* i x (base price - base stop)/(N+1)
C31_AsStated ==
    (/\ last.op = "generate_grid_orders"
     /\ Lower(last.result.self.direction) = "buy"
     /\ last.result.self.risk_manager = "MockRiskManager"
     /\ last.result.self.use_base_tp_for_all
     /\ last.result.self.base_tp > last.result.self.base_price)
    => LET self == last.result.self
           lines == self.num_grid_lines + 1
           returned == last.result.returned[1]
       IN  /\ Len(returned) = self.num_grid_lines
           /\ \A i \in 1..Len(returned) :
                /\ lines * returned[i].entry_price
                     = lines * self.base_price - i * (self.base_price - self.base_sl)
                /\ returned[i].sl = self.base_sl
                /\ self.base_sl < returned[i].entry_price
                /\ returned[i].entry_price < self.base_price

(* ======================================================================= *)
\* C32: process_market_data_update makes no regeneration attempt - no order
\* placed, no counter raised, no cooldown stamped - for a stopped-out order that
\* has no grid id, whose grid id is not in active_grids, or whose ActiveGrid has
\* is_active = False.
HasActiveGrid(order) ==
    /\ order.grid_id # NoGrid
    /\ order.grid_id \in DOMAIN active_grids
    /\ active_grids[order.grid_id].is_active

C32_NoRegenerationWithoutActiveGrid ==
    [][ \A id \in (DOMAIN regen_attempt_time') \ (DOMAIN regen_attempt_time) :
          HasActiveGrid(orders[id]) ]_vars

\* the same for the two cases that the grid id decides
IsRegistered(order) == order.grid_id # NoGrid /\ order.grid_id \in DOMAIN active_grids

C32_Probe_RegisteredOnly ==
    [][ /\ \A id \in (DOMAIN regen_attempt_time') \ (DOMAIN regen_attempt_time) :
             IsRegistered(orders[id])
        /\ (\A id \in DOMAIN orders' : orders'[id].status = "STOPPED_OUT"
                                          => ~IsRegistered(orders'[id]))
             => /\ regeneration_counts' = regeneration_counts
                /\ slot_cooldown_tracker' = slot_cooldown_tracker ]_vars


(* ------------------------------- C33 ----------------------------------- *)
\* the factor that the config object holds for attempt n, the default one if it
\* holds none
ConfiguredFactor(_current_config, n) ==
    IF n \in DOMAIN _current_config.REGEN_SLTP_WIDEN_FACTOR_ATTEMPT
    THEN _current_config.REGEN_SLTP_WIDEN_FACTOR_ATTEMPT[n]
    ELSE _current_config.DEFAULT_SL_TP_WIDENING_FACTOR

\* the SL and TP that a widening of the stopped order by the factor f gives, under
\* one of the rounding units of the RiskManager
WidenedLevels(stopped_order, f) ==
    { LET d == get_order_details_for_regeneration(
                   [orders |-> (stopped_order.order_id :> stopped_order)],
                   stopped_order.order_id, f[1], f[2], unit)
      IN  <<d.sl_price, d.tp_price>> : unit \in {1, CoarseUnit} }

\* C33: the widening factor of a regeneration attempt is the one the config holds
\* for the slot's attempt counter as it is before the regenerated order is placed
\* (0 for the first regeneration, 1 for the second, ...), the default factor when the
\* config holds none for that index; the order placed by the attempt has its SL and
\* TP widened by that factor.
C33_FactorByAttemptCounter ==
    [][ (last' # last /\ last'.op = "process_market_data_update")
        => \A i \in 1..Len(last'.attempts) :
             LET a == last'.attempts[i]
                 n == Get(regeneration_counts, a.slot, 0)
                 f == ConfiguredFactor(last'.args, n)
             IN  /\ a.widen_factor = f
                 /\ a.outcome = "placed"
                    => \E id \in (DOMAIN orders') \ (DOMAIN orders) :
                         /\ orders'[id].original_order_id = a.slot
                         /\ orders'[id].regeneration_attempts = n + 1
                         /\ <<orders'[id].sl_price, orders'[id].tp_price>>
                              \in WidenedLevels(orders'[a.order_id], f) ]_vars

\* a third regeneration placed under the config that holds factors for the attempts
\* 0 and 1 only: the default factor was used
C33_Witness ==
    /\ last.op = "process_market_data_update"
    /\ last.args = MainConfigGM
    /\ \E i \in 1..Len(last.attempts) :
         /\ last.attempts[i].outcome = "placed"
         /\ regeneration_counts[last.attempts[i].slot] = 3
         /\ last.attempts[i].widen_factor = <<WIDEN_NUM, WIDEN_DEN>>

\* a second regeneration placed with the factor 1.5 that main.py configures for
\* attempt 1 never happens
C33_Probe_SecondAttemptConfigured ==
    ~ ( /\ last.op = "process_market_data_update"
        /\ last.args = MainPyConfig
        /\ \E i \in 1..Len(last.attempts) :
             /\ last.attempts[i].outcome = "placed"
             /\ regeneration_counts[last.attempts[i].slot] = 2
             /\ last.attempts[i].widen_factor = <<3, 2>> )


(* ------------------------------- C34 ----------------------------------- *)
\* the orders of one slot chain: the same grid and the same slot id
SameChain(a, b) ==
    /\ orders[a].grid_id = orders[b].grid_id
    /\ orders[a].original_order_id = orders[b].original_order_id

\* C34: every order of a slot chain keeps the pre-widening SL and TP of the slot's
\* first order as its initial SL/TP, and the SL and TP of a regenerated order are the
\* first order's levels widened once by the factor of its attempt: the widening is
\* not compounded over successive regenerations.
C34_WideningNotCompounded ==
    \A a, b \in DOMAIN orders :
        (SameChain(a, b) /\ orders[a].regeneration_attempts = 0
                         /\ orders[b].regeneration_attempts > 0)
        => /\ orders[b].initial_sl_price = orders[a].initial_sl_price
           /\ orders[b].initial_tp_price = orders[a].initial_tp_price
           /\ <<orders[b].sl_price, orders[b].tp_price>>
                \in WidenedLevels([orders[a] EXCEPT !.status = "STOPPED_OUT"],
                                  <<WIDEN_NUM, WIDEN_DEN>>)

\* the initial levels of a regenerated order are its own widened levels, whatever
\* the attempt
C34_Probe_InitialIsOwnLevel ==
    \A id \in DOMAIN orders :
        orders[id].regeneration_attempts > 0
        => /\ orders[id].initial_sl_price = orders[id].sl_price
           /\ orders[id].initial_tp_price = orders[id].tp_price


(* ------------------------------- C35 ----------------------------------- *)
\* the orders that the step added for the slot of the attempt a
AddedFor(a) ==
    { id \in (DOMAIN orders') \ (DOMAIN orders) : orders'[id].original_order_id = a.slot }

\* C35: the order that a regeneration attempt of process_market_data_update places
\* has the lot size that calculate_lot_size answered for the regenerated entry and
\* the widened SL, that lot size is > 0 and can_open_trade answered True for it;
\* when calculate_lot_size answers a lot size <= 0 or can_open_trade answers False,
\* no order is added and the slot's attempt counter stays as it was.
C35_RegeneratedLotFromRiskManager ==
    [][ last'.op = "process_market_data_update"
        => \A i \in 1..Len(last'.attempts) :
             LET a == last'.attempts[i]
             IN  /\ a.outcome = "placed"
                    => /\ a.new_lot_size > 0
                       /\ a.can_open_trade = TRUE
                       /\ \E id \in AddedFor(a) :
                            /\ orders'[id].lot_size = a.new_lot_size
                            /\ a.lot_args = <<orders'[id].symbol, orders'[id].entry_price,
                                              orders'[id].sl_price>>
                 /\ (a.new_lot_size <= 0 \/ a.can_open_trade = FALSE)
                    => /\ AddedFor(a) = {}
                       /\ Get(regeneration_counts', a.slot, 0)
                            = Get(regeneration_counts, a.slot, 0) ]_vars

\* a regenerated order placed with a lot size other than the one of the stopped order
C35_Witness ==
    /\ last.op = "process_market_data_update"
    /\ \E i \in 1..Len(last.attempts), id \in DOMAIN orders :
         LET a == last.attempts[i]
         IN  /\ a.outcome = "placed"
             /\ orders[id].original_order_id = a.slot
             /\ orders[id].status = "PENDING"
             /\ orders[id].regeneration_attempts = regeneration_counts[a.slot]
             /\ orders[id].lot_size = a.new_lot_size
             /\ orders[id].lot_size # orders[a.order_id].lot_size

\* an attempt that the RiskManager refused is never seen
C35_Probe_Refused ==
    ~ ( /\ last.op = "process_market_data_update"
        /\ \E i \in 1..Len(last.attempts) :
             last.attempts[i].outcome \in {"lot_zero", "blocked"} )


(* ------------------------------- C36 ----------------------------------- *)
\* what RiskManager.calculate_lot_size answers for the symbol, entry and SL at the
\* default risk amount, for an account of 1000 at 1:100
RiskManagersLot(symbol, entry_price, sl_price) ==
    calculate_lot_size(RiskManager(1000, 100), symbol, entry_price, sl_price,
                       DEFAULT_RISK_PER_TRADE_USD, NoAmount)

\* the orders that the instance returns when it is sized by a risk manager that
\* takes the keyword account_balance
CandidatesOf(self) ==
    generate_grid_orders([self EXCEPT !.risk_manager = "MockRiskManager"]).returned

\* every candidate is one that the RiskManager gives a positive lot size
Sizeable(self, candidates) ==
    /\ candidates # <<>>
    /\ \A i \in 1..Len(candidates) :
         LET r == RiskManagersLot(self.symbol, candidates[i].entry_price, candidates[i].sl)
         IN  ~r.raised /\ r.lot > 0

\* C36: the lot size that a strategy attaches to a candidate is the one that
\* calculate_lot_size of the Risk Manager returns for the candidate's symbol, entry
\* and SL at the default risk amount, a candidate is dropped for its lot size only
\* when that value is <= 0, and so a strategy that is given the RiskManager and has
\* candidates of a positive lot size returns orders.
C36_LotFromRiskManager ==
    /\ (last.op = "_calculate_lot_size" /\ last.result.self.risk_manager = "RiskManager")
       => LET r == RiskManagersLot(last.result.self.symbol, last.result.entry_price,
                                   last.result.sl_price)
          IN  ~r.raised => last.result.lot = r.lot
    /\ (last.op = "generate_grid_orders" /\ last.result.self.risk_manager = "RiskManager")
       => \E candidates \in {CandidatesOf(last.result.self)} :
            Sizeable(last.result.self, candidates)
            => last.result.returned[Len(last.result.returned)] # <<>>

\* a strategy that was given the RiskManager returns nothing and sizes every order
\* with 0
C36_Probe_NothingSized ==
    /\ (last.op = "_calculate_lot_size" /\ last.result.self.risk_manager = "RiskManager")
       => last.result.lot = 0
    /\ (last.op = "generate_grid_orders" /\ last.result.self.risk_manager = "RiskManager")
       => \A i \in 1..Len(last.result.returned) : last.result.returned[i] = <<>>

\* create_new_grid, which hands the RiskManager to the strategy, registers no grid
C36_Probe_NoGridCreated ==
    last.op = "create_new_grid" => (last.result.grid_id = NoGrid /\ orders = <<>>)


(* ------------------------------- C37 ----------------------------------- *)
\* the slot of the order may be regenerated at this moment
Regenerable(order) ==
    /\ order.grid_id \in DOMAIN active_grids
    /\ ~InCooldown(slot_cooldown_tracker, order.original_order_id, now)
    /\ Get(regeneration_counts, order.original_order_id, 0) < DEFAULT_MAX_REGENERATION_ATTEMPTS

\* C37: in every reachable state without a broker connection, one
\* process_market_data_update runs the fill check before the close check on the same
\* bar: a PENDING order whose bar meets its fill condition and its SL (its TP)
\* condition is STOPPED_OUT (TP_HIT) when the update returns, it is reported filled
\* and closed, and when it is STOPPED_OUT it is handed to the regeneration of that
\* same update (its slot, when it may be regenerated, gets its attempt there); an
\* order that the update regenerated is PENDING when the update returns.
C37_FillBeforeCloseInOneUpdate ==
    ~mt5_initialized =>
      \A md \in MarketDatas(Bars), risk \in RiskAnswers, tr \in TradeResults :
        LET r == process_market_data_update(GM, md, now, risk, mt5_initialized, tr)
            Attempted(slot) == \E i \in 1..Len(r.g.attempts) : r.g.attempts[i].slot = slot
        IN  /\ \A id \in DOMAIN orders :
                 LET order == orders[id]
                     closes == ExpectedClose([order EXCEPT !.status = "FILLED"],
                                             md[order.symbol])
                 IN  ( /\ Contains(pending_orders, id)
                       /\ order.symbol \in DOMAIN md
                       /\ FillCondition(order, md[order.symbol])
                       /\ closes \in {"STOPPED_OUT", "TP_HIT"} )
                     => /\ r.g.om.orders[id].status = closes
                        /\ Contains(r.filled, id) /\ Contains(r.closed, id)
                        /\ (closes = "STOPPED_OUT" /\ Regenerable(order))
                           => Attempted(order.original_order_id)
            /\ \A id \in (DOMAIN r.g.om.orders) \ (DOMAIN orders) :
                 /\ r.g.om.orders[id].status = "PENDING"
                 /\ Contains(r.g.om.pending_orders, id)

\* an update has just filled and stopped out an order that was PENDING, and the
\* order regenerated for it is PENDING although the bar of the update meets its
\* fill condition
C37_Witness ==
    /\ last.op = "process_market_data_update"
    /\ ~mt5_initialized
    /\ \E i \in 1..Len(last.attempts), id \in DOMAIN orders :
         LET a == last.attempts[i]
         IN  /\ a.outcome = "placed"
             /\ Contains(last.filled, a.order_id) /\ Contains(last.closed, a.order_id)
             /\ orders[a.order_id].status = "STOPPED_OUT"
             /\ id > a.order_id
             /\ orders[id].original_order_id = a.slot
             /\ orders[id].status = "PENDING"
             /\ FillCondition(orders[id], last.md[orders[id].symbol])


(* ------------------------------- C38 ----------------------------------- *)
\* the order is neither closed nor cancelled
NonTerminal(order) == order.status \in {"PENDING", "FILLED"}

\* C38: in every state reached by calls of create_new_grid and
\* process_market_data_update - several grids of one strategy and symbol included -
\* a slot id has at most one order that is PENDING or FILLED, and the orders of a
\* slot, which move its regeneration counter and its cooldown stamp, all belong to
\* one grid.
C38_SlotsBelongToOneGrid ==
    \A a, b \in DOMAIN orders :
        (a # b /\ orders[a].original_order_id = orders[b].original_order_id)
        => /\ orders[a].grid_id = orders[b].grid_id
           /\ ~(NonTerminal(orders[a]) /\ NonTerminal(orders[b]))

\* the stopped-out order of one grid is held back by the cooldown stamp that the
\* regeneration of another grid's order left on the slot they share: a state that
\* is never seen
C38_Probe_ForeignCooldown ==
    ~ \E a, b, c \in DOMAIN orders :
        /\ orders[a].original_order_id = orders[b].original_order_id
        /\ orders[a].grid_id # orders[b].grid_id
        /\ orders[a].grid_id \in DOMAIN active_grids
        /\ orders[b].grid_id \in DOMAIN active_grids
        /\ orders[a].status = "STOPPED_OUT" /\ orders[b].status = "STOPPED_OUT"
        /\ orders[a].regeneration_attempts = 0 /\ orders[b].regeneration_attempts = 0
        /\ orders[c].grid_id = orders[a].grid_id
        /\ orders[c].original_order_id = orders[a].original_order_id
        /\ orders[c].regeneration_attempts = 1
        /\ regeneration_counts[orders[a].original_order_id] = 1
        /\ b \notin DOMAIN regen_attempt_time

(* ------------------------------- C40 ----------------------------------- *)
\* how often id is listed in the sequence s
RECURSIVE Occurrences(_, _)
Occurrences(s, id) ==
    IF s = <<>> THEN 0
    ELSE (IF Head(s) = id THEN 1 ELSE 0) + Occurrences(Tail(s), id)

\* C40: a create_new_grid that returns a grid id registers its ActiveGrid under an
\* id that was not in use and replaces no earlier one, also when two grids of one
\* strategy and symbol are created within one second; so in every reachable state
\* every order whose grid id is registered is listed exactly once in the order_ids
\* of that ActiveGrid, and every listed id is an order with that grid id.
C40_GridIdsAreFresh ==
    /\ \A id \in DOMAIN orders :
          orders[id].grid_id \in DOMAIN active_grids
          => Occurrences(active_grids[orders[id].grid_id].order_ids, id) = 1
    /\ \A gid \in DOMAIN active_grids :
          \A i \in 1..Len(active_grids[gid].order_ids) :
             LET id == active_grids[gid].order_ids[i]
             IN  id \in DOMAIN orders /\ orders[id].grid_id = gid

\* a create_new_grid that returned a grid id found the id unregistered
C40_Probe_FreshAfterTick ==
    [][ (last'.op = "create_new_grid" /\ last' # last /\ last'.ok /\ last.op = "tick")
        => (DOMAIN active_grids') \ (DOMAIN active_grids) # {} ]_vars


(* ------------------------------- C39 ----------------------------------- *)
\* C39: in every reachable state and for every request, ordinary or regeneration,
\* a place_new_order that returns None - the request was turned down by the
\* validation or by the broker - leaves the order table, the pending and active
\* lists and every regeneration counter as they were.
C39_NoOrderNoChange ==
    \A a \in PlaceRequests \cup RegenRequests, tr \in TradeResults :
        LET r == place_new_order(OM, a, mt5_initialized, tr)
        IN  r.order_id = NoneId => r.om = OM

\* a request that the validation turns down, and an ordinary request that the
\* broker turns down, leave everything as it was
C39_Probe_OrdinaryAndRejected ==
    \A a \in PlaceRequests \cup RegenRequests, tr \in TradeResults :
        LET r == place_new_order(OM, a, mt5_initialized, tr)
        IN  (r.order_id = NoneId /\ (PlaceRejected(a) \/ ~a.is_regeneration)) => r.om = OM

====
